---- MODULE Spec2Model ----
(***************************************************************************)
(* Model of the HWID checker: the lock-posture evaluator and the advisory  *)
(* generator (src/info/advanced.rs), the export-file parser and the drift  *)
(* comparator (src/info/advanced.rs), the export serializer and the        *)
(* session state (src/app.rs), the key loop (src/main.rs) and the          *)
(* collectors' normalisation (src/info/*.rs).                              *)
(*                                                                         *)
(* A Rust String is a sequence of one-character strings, so that trim,     *)
(* split_once, contains, starts_with and to_lowercase are computed the way *)
(* the code computes them.  Option<T> is a record [some, v].               *)
(***************************************************************************)
EXTENDS Integers, Sequences, FiniteSets, TLC

VARIABLES
    pc,               \* position of the session / of the function under check
    platform,         \* "windows" or "other" (cfg(windows))
    registry,         \* the registry values detect_windows reads
    locked_info,      \* LockedMotherboardInfo
    spoofing_advice,  \* Vec<SpoofingAdvice>
    raw,              \* what the platform inventory returns to the collectors
    snapshot,         \* the collected *_info fields of App
    file,             \* serials_export.txt: Option<String>
    previous_serials, \* Option<PreviousSerials>
    current_tab,      \* App.current_tab
    scroll_offset,    \* App.scroll_offset
    status_message,   \* App.status_message
    cmp,              \* the last comparison made: category, current, result
    terminal          \* the terminal: raw mode and alternate screen

vars == <<pc, platform, registry, locked_info, spoofing_advice, raw, snapshot,
          file, previous_serials, current_tab, scroll_offset,
          status_message, cmp, terminal>>

\* the terminal outside main, and inside run_app
TerminalOff == [raw_mode |-> FALSE, alternate_screen |-> FALSE]
TerminalOn == [raw_mode |-> TRUE, alternate_screen |-> TRUE]

lockVars == <<platform, registry, locked_info, spoofing_advice>>
appVars == <<raw, snapshot, file, previous_serials, current_tab,
             scroll_offset, status_message>>

-----------------------------------------------------------------------------
(* Option<T> *)

Some(x) == [some |-> TRUE, v |-> <<x>>]
None == [some |-> FALSE, v |-> <<>>]
Unwrap(o) == o.v[1]

-----------------------------------------------------------------------------
(* Strings *)

Min(S) == CHOOSE x \in S : \A y \in S : x <= y
Max(S) == CHOOSE x \in S : \A y \in S : x >= y

\* the positions of the characters of s, in order
Indices(s) == [i \in 1..Len(s) |-> i]

\* char::is_whitespace, on the characters the model uses
IsWhite(c) == c \in {" ", "\t", "\n", "\r"}

\* str::trim
Trim(s) ==
    LET NotWhite(i) == ~IsWhite(s[i])
        keep == SelectSeq(Indices(s), NotWhite)
    IN IF keep = <<>> THEN <<>> ELSE SubSeq(s, keep[1], keep[Len(keep)])

\* str::trim_matches(c)
TrimMatches(s, c) ==
    LET Other(i) == s[i] # c
        keep == SelectSeq(Indices(s), Other)
    IN IF keep = <<>> THEN <<>> ELSE SubSeq(s, keep[1], keep[Len(keep)])

\* str::starts_with, str::ends_with, str::contains
StartsWith(s, p) == Len(p) <= Len(s) /\ SubSeq(s, 1, Len(p)) = p
EndsWith(s, p) == Len(p) <= Len(s) /\ SubSeq(s, Len(s) - Len(p) + 1, Len(s)) = p
Contains(s, p) == \E i \in 1..(Len(s) - Len(p) + 1) : SubSeq(s, i, i + Len(p) - 1) = p

\* char::to_lowercase on ASCII letters
LowerChar(c) ==
    CASE c = "A" -> "a" [] c = "B" -> "b" [] c = "C" -> "c" [] c = "D" -> "d"
      [] c = "E" -> "e" [] c = "F" -> "f" [] c = "G" -> "g" [] c = "H" -> "h"
      [] c = "I" -> "i" [] c = "J" -> "j" [] c = "K" -> "k" [] c = "L" -> "l"
      [] c = "M" -> "m" [] c = "N" -> "n" [] c = "O" -> "o" [] c = "P" -> "p"
      [] c = "Q" -> "q" [] c = "R" -> "r" [] c = "S" -> "s" [] c = "T" -> "t"
      [] c = "U" -> "u" [] c = "V" -> "v" [] c = "W" -> "w" [] c = "X" -> "x"
      [] c = "Y" -> "y" [] c = "Z" -> "z" [] OTHER -> c

\* str::to_lowercase
ToLowercase(s) == [i \in 1..Len(s) |-> LowerChar(s[i])]

\* str::split_once(c): None, or Some(<<before, after>>) at the first c
SplitOnce(s, c) ==
    LET Is(i) == s[i] = c
        at == SelectSeq(Indices(s), Is)
    IN IF at = <<>> THEN None
       ELSE Some(<<SubSeq(s, 1, at[1] - 1), SubSeq(s, at[1] + 1, Len(s))>>)

\* str::lines: split at "\n", a "\r" before it dropped, no empty last line
Lines(s) ==
    LET IsNewline(i) == s[i] = "\n"
        nl == SelectSeq(Indices(s), IsNewline)
        n == Len(nl)
        count == IF n = 0 THEN (IF s = <<>> THEN 0 ELSE 1)
                 ELSE IF nl[n] < Len(s) THEN n + 1 ELSE n
        Line(k) ==
            LET from == IF k = 1 THEN 1 ELSE nl[k - 1] + 1
                to == IF k <= n THEN nl[k] - 1 ELSE Len(s)
            IN IF k <= n /\ to >= from /\ s[to] = "\r"
               THEN SubSeq(s, from, to - 1) ELSE SubSeq(s, from, to)
    IN [k \in 1..count |-> Line(k)]

\* the elements of a sequence
Range(q) == {q[i] : i \in 1..Len(q)}

-----------------------------------------------------------------------------
(* LockedMotherboardInfo: the lock-posture evaluator *)

\* impl Default for LockedMotherboardInfo
DefaultLockedInfo ==
    [is_oem_system |-> FALSE,
     oem_vendor |-> <<"U","n","k","n","o","w","n">>,
     bios_write_protected |-> FALSE,
     secure_boot_enforced |-> FALSE,
     tpm_locked |-> FALSE,
     overall_locked |-> FALSE,
     lock_reasons |-> <<>>]

\* the (pattern, vendor) table of detect_windows, in its order
oem_vendors ==
    << <<<<"d","e","l","l">>, <<"D","e","l","l">>>>, <<<<"h","p">>, <<"H","P">>>>, <<<<"h","e","w","l","e","t","t">>, <<"H","P">>>>,
       <<<<"l","e","n","o","v","o">>, <<"L","e","n","o","v","o">>>>, <<<<"a","s","u","s">>, <<"A","S","U","S">>>>, <<<<"a","c","e","r">>, <<"A","c","e","r">>>>,
       <<<<"m","s","i">>, <<"M","S","I">>>>, <<<<"g","i","g","a","b","y","t","e">>, <<"G","i","g","a","b","y","t","e">>>>, <<<<"a","s","r","o","c","k">>, <<"A","S","R","o","c","k">>>> >>

\* ["dell", "hp", "hewlett", "lenovo"]: the patterns of a typically locked BIOS
LockedPatterns == {<<"d","e","l","l">>, <<"h","p">>, <<"h","e","w","l","e","t","t">>, <<"l","e","n","o","v","o">>}

ReasonOemSuffix == <<" ","O","E","M"," ","s","y","s","t","e","m"," ","d","e","t","e","c","t","e","d"," ","-"," ","B","I","O","S"," ","t","y","p","i","c","a","l","l","y"," ","l","o","c","k","e","d">>
ReasonSecureBoot == <<"S","e","c","u","r","e"," ","B","o","o","t"," ","e","n","a","b","l","e","d"," ","-"," ","E","F","I"," ","m","o","d","i","f","i","c","a","t","i","o","n","s"," ","r","e","s","t","r","i","c","t","e","d">>
ReasonTpm == <<"T","P","M"," ","a","c","t","i","v","e"," ","-"," ","H","a","r","d","w","a","r","e"," ","a","t","t","e","s","t","a","t","i","o","n"," ","m","a","y"," ","d","e","t","e","c","t"," ","c","h","a","n","g","e","s">>
ReasonVbsMutHvci == <<"V","B","S","/","H","V","C","I"," ","e","n","a","b","l","e","d"," ","-"," ","K","e","r","n","e","l","-","l","e","v","e","l"," ","p","r","o","t","e","c","t","i","o","n","s"," ","a","c","t","i","v","e">>
ReasonVbs == <<"V","B","S"," ","e","n","a","b","l","e","d"," ","-"," ","K","e","r","n","e","l","-","l","e","v","e","l"," ","p","r","o","t","e","c","t","i","o","n","s"," ","a","c","t","i","v","e">>
ReasonHvci == <<"H","V","C","I"," ","e","n","a","b","l","e","d"," ","-"," ","D","r","i","v","e","r"," ","s","i","g","n","i","n","g"," ","e","n","f","o","r","c","e","d">>

\* hklm.open_subkey(path) then key.get_value(name): Ok(v) only when the key
\* opens and the value is there and of the asked type
RegGet(entry) == IF entry.key /\ entry.has THEN Some(entry.v) ELSE None

\* the vendor loop: the first pattern the lowercased manufacturer contains
FirstVendorMatchMutLast(manufacturer_lower) ==
    LET hits == {i \in 1..Len(oem_vendors) :
                    Contains(manufacturer_lower, oem_vendors[i][1])}
    IN IF hits = {} THEN 0 ELSE Max(hits)
FirstVendorMatch(manufacturer_lower) ==
    LET hits == {i \in 1..Len(oem_vendors) :
                    Contains(manufacturer_lower, oem_vendors[i][1])}
    IN IF hits = {} THEN 0 ELSE Min(hits)

\* info.overall_locked = is_oem_system || secure_boot_enforced || bios_write_protected
OverallLockedMutTpm(info) ==
    info.is_oem_system \/ info.secure_boot_enforced \/ info.bios_write_protected
        \/ info.tpm_locked
OverallLocked(info) ==
    info.is_oem_system \/ info.secure_boot_enforced \/ info.bios_write_protected

\* the HVCI block: the reason is pushed unless a reason already mentions HVCI
PushHvciReasonMutEnabled(lock_reasons) ==
    IF ~(\E i \in 1..Len(lock_reasons) : Contains(lock_reasons[i], <<"e","n","a","b","l","e","d">>))
    THEN Append(lock_reasons, ReasonHvci)
    ELSE lock_reasons
PushHvciReason(lock_reasons) ==
    IF ~(\E i \in 1..Len(lock_reasons) : Contains(lock_reasons[i], <<"H","V","C","I">>))
    THEN Append(lock_reasons, ReasonHvci)
    ELSE lock_reasons

\* the TPM block: Start != 4 means the service is not disabled
TpmActiveMutMissing(start) == ~start.some \/ Unwrap(start) # 4
TpmActive(start) == start.some /\ Unwrap(start) # 4

detect_windows(reg) ==
    LET manufacturer == RegGet(reg.SystemManufacturer)
        hit == IF manufacturer.some
               THEN FirstVendorMatch(ToLowercase(Unwrap(manufacturer)))
               ELSE 0
        oem == hit # 0 /\ oem_vendors[hit][1] \in LockedPatterns
        secure == RegGet(reg.UEFISecureBootEnabled)
        secureOn == secure.some /\ Unwrap(secure) = 1
        tpmOn == TpmActive(RegGet(reg.TpmStart))
        vbs == RegGet(reg.EnableVirtualizationBasedSecurity)
        vbsOn == vbs.some /\ Unwrap(vbs) = 1
        hvci == RegGet(reg.HvciEnabled)
        hvciOn == hvci.some /\ Unwrap(hvci) = 1
        r1 == IF oem THEN <<oem_vendors[hit][2] \o ReasonOemSuffix>> ELSE <<>>
        r2 == IF secureOn THEN Append(r1, ReasonSecureBoot) ELSE r1
        r3 == IF tpmOn THEN Append(r2, ReasonTpm) ELSE r2
        r4 == IF vbsOn THEN Append(r3, ReasonVbs) ELSE r3
        r5 == IF hvciOn THEN PushHvciReason(r4) ELSE r4
        info == [is_oem_system |-> oem,
                 oem_vendor |-> IF hit # 0 THEN oem_vendors[hit][2]
                                ELSE DefaultLockedInfo.oem_vendor,
                 bios_write_protected |-> vbsOn \/ hvciOn,
                 secure_boot_enforced |-> secureOn,
                 tpm_locked |-> tpmOn,
                 overall_locked |-> FALSE,
                 lock_reasons |-> r5]
    IN [info EXCEPT !.overall_locked = OverallLocked(info)]

\* LockedMotherboardInfo::detect: cfg(windows) or the default
detect(plat, reg) ==
    IF plat = "windows" THEN detect_windows(reg) ELSE DefaultLockedInfo

-----------------------------------------------------------------------------
(* generate_spoofing_advice: the advisory generator *)

AdviceEfi ==
    [category |-> "SMBIOS/Motherboard",
     method |-> "EFI-Level Spoofing",
     difficulty |-> "Advanced",
     details |-> "Use UEFI shell or EFI module injection. Tools: SmmBackdoor, custom EFI drivers. Modify SMBIOS tables at firmware level before OS boot. May require disabling Secure Boot first."]

AdviceSecureBoot ==
    [category |-> "Secure Boot",
     method |-> "Disable in BIOS",
     difficulty |-> "Easy",
     details |-> "Enter BIOS setup (DEL/F2), navigate to Security/Boot settings, disable Secure Boot. Required before EFI modifications. Some OEM systems may require BIOS password."]

AdviceTpm ==
    [category |-> "TPM",
     method |-> "TPM Clear/Reset",
     difficulty |-> "Medium",
     details |-> "Clear TPM from BIOS or Windows Security settings. Note: This will remove all TPM-protected keys including BitLocker. Back up recovery keys first. Some games use TPM for hardware attestation."]

AdviceRegistry ==
    [category |-> "SMBIOS/Motherboard",
     method |-> "Registry + Driver Spoofing",
     difficulty |-> "Medium",
     details |-> "Modify HKLM\\HARDWARE\\DESCRIPTION\\System\\BIOS values. Use WMI provider hooks or kernel drivers to intercept queries. Tools: Custom kernel drivers, WMI hooks."]

AdviceDisk ==
    [category |-> "Disk Serials",
     method |-> "IOCTL Hooking / Firmware",
     difficulty |-> "Advanced",
     details |-> "Hook IOCTL_STORAGE_QUERY_PROPERTY and SMART_RCV_DRIVE_DATA in kernel driver. For persistent changes: some SSDs have firmware tools to modify serial. NVMe drives may use vendor-specific commands."]

AdviceNetwork ==
    [category |-> "Network MAC",
     method |-> "Registry / Driver Level",
     difficulty |-> "Easy",
     details |-> "Registry: HKLM\\SYSTEM\\CurrentControlSet\\Control\\Class\\{4d36e972...}\\000X Add NetworkAddress string with new MAC (no colons). Or use Device Manager > Network Adapter > Advanced > Locally Administered Address."]

AdviceGpu ==
    [category |-> "GPU GUID",
     method |-> "Registry Modification",
     difficulty |-> "Medium",
     details |-> "Modify HKLM\\SYSTEM\\CurrentControlSet\\Enum\\PCI entries for GPU. Some anti-cheats read GPU info via DXGI/DirectX - may need API hooks. NVIDIA/AMD driver reinstall generates new GUIDs."]

AdviceMonitor ==
    [category |-> "Monitor Serial",
     method |-> "EDID Spoofing",
     difficulty |-> "Advanced",
     details |-> "Intercept EDID data from monitor. Tools: Custom display drivers, EDID override in registry. Path: HKLM\\SYSTEM\\CurrentControlSet\\Enum\\DISPLAY\\<Monitor>\\<ID>\\Device Parameters\\EDID_OVERRIDE"]

\* the first block: the motherboard entry and, in the locked branch only, the
\* Secure Boot and TPM entries
MotherboardAdviceMutSwapped(info) ==
    IF info.overall_locked
    THEN (IF info.secure_boot_enforced THEN <<AdviceSecureBoot>> ELSE <<>>)
         \o <<AdviceEfi>>
         \o (IF info.tpm_locked THEN <<AdviceTpm>> ELSE <<>>)
    ELSE <<AdviceRegistry>>
MotherboardAdviceMutSecureBootAlways(info) ==
    IF info.overall_locked
    THEN <<AdviceEfi, AdviceSecureBoot>>
         \o (IF info.tpm_locked THEN <<AdviceTpm>> ELSE <<>>)
    ELSE <<AdviceRegistry>>
MotherboardAdvice(info) ==
    IF info.overall_locked
    THEN <<AdviceEfi>>
         \o (IF info.secure_boot_enforced THEN <<AdviceSecureBoot>> ELSE <<>>)
         \o (IF info.tpm_locked THEN <<AdviceTpm>> ELSE <<>>)
    ELSE <<AdviceRegistry>>

generate_spoofing_advice(info) ==
    MotherboardAdvice(info)
        \o <<AdviceDisk, AdviceNetwork, AdviceGpu, AdviceMonitor>>

-----------------------------------------------------------------------------
(* PreviousSerials: the baseline and the drift comparator *)

\* #[derive(Default)] for PreviousSerials
DefaultPreviousSerials ==
    [system_serial |-> None,
     system_uuid |-> None,
     system_sku |-> None,
     baseboard_serial |-> None,
     processor_serial |-> None,
     chassis_serial |-> None,
     disk_serials |-> <<>>,
     network_macs |-> <<>>,
     monitor_serials |-> <<>>,
     gpu_guids |-> <<>>]

\* enum SerialStatus
Unchanged == [status |-> "Unchanged", old |-> <<>>]
Changed(old) == [status |-> "Changed", old |-> old]
New == [status |-> "New", old |-> <<>>]

\* compare: `let previous = match category { ... }`
PreviousScalarMutChassis(self, category) ==
    CASE category = <<"s","y","s","t","e","m","_","s","e","r","i","a","l">> -> self.system_serial
      [] category = <<"s","y","s","t","e","m","_","u","u","i","d">> -> self.system_uuid
      [] category = <<"s","y","s","t","e","m","_","s","k","u">> -> self.system_sku
      [] category = <<"b","a","s","e","b","o","a","r","d","_","s","e","r","i","a","l">> -> self.baseboard_serial
      [] category = <<"p","r","o","c","e","s","s","o","r","_","s","e","r","i","a","l">> -> self.processor_serial
      [] category = <<"c","h","a","s","s","i","s","_","s","e","r","i","a","l">> -> self.baseboard_serial
      [] OTHER -> None
PreviousScalarMutFallback(self, category) ==
    CASE category = <<"s","y","s","t","e","m","_","s","e","r","i","a","l">> -> self.system_serial
      [] category = <<"s","y","s","t","e","m","_","u","u","i","d">> -> self.system_uuid
      [] category = <<"s","y","s","t","e","m","_","s","k","u">> -> self.system_sku
      [] category = <<"b","a","s","e","b","o","a","r","d","_","s","e","r","i","a","l">> -> self.baseboard_serial
      [] category = <<"p","r","o","c","e","s","s","o","r","_","s","e","r","i","a","l">> -> self.processor_serial
      [] category = <<"c","h","a","s","s","i","s","_","s","e","r","i","a","l">> -> self.chassis_serial
      [] OTHER -> self.system_serial
PreviousScalar(self, category) ==
    CASE category = <<"s","y","s","t","e","m","_","s","e","r","i","a","l">> -> self.system_serial
      [] category = <<"s","y","s","t","e","m","_","u","u","i","d">> -> self.system_uuid
      [] category = <<"s","y","s","t","e","m","_","s","k","u">> -> self.system_sku
      [] category = <<"b","a","s","e","b","o","a","r","d","_","s","e","r","i","a","l">> -> self.baseboard_serial
      [] category = <<"p","r","o","c","e","s","s","o","r","_","s","e","r","i","a","l">> -> self.processor_serial
      [] category = <<"c","h","a","s","s","i","s","_","s","e","r","i","a","l">> -> self.chassis_serial
      [] OTHER -> None

\* PreviousSerials::compare
compare(self, category, current) ==
    IF current = <<>> \/ current = <<"N","/","A">> THEN New
    ELSE LET previous == PreviousScalar(self, category)
         IN IF previous.some /\ Unwrap(previous) = current THEN Unchanged
            ELSE IF previous.some THEN Changed(Unwrap(previous))
            ELSE New

\* compare_list: `list.iter().any(|s| s == current)`
ListAnyMutFirst(list, current) == list[1] = current
ListAny(list, current) == \E i \in 1..Len(list) : list[i] = current

\* PreviousSerials::compare_list
compare_list(self, category, current) ==
    IF current = <<>> \/ current = <<"N","/","A">> THEN New
    ELSE IF category \notin {<<"d","i","s","k">>, <<"n","e","t","w","o","r","k">>, <<"m","o","n","i","t","o","r">>, <<"g","p","u">>} THEN New
    ELSE LET list == CASE category = <<"d","i","s","k">> -> self.disk_serials
                       [] category = <<"n","e","t","w","o","r","k">> -> self.network_macs
                       [] category = <<"m","o","n","i","t","o","r">> -> self.monitor_serials
                       [] category = <<"g","p","u">> -> self.gpu_guids
         IN IF list = <<>> THEN New
            ELSE IF ListAny(list, current) THEN Unchanged
            ELSE Changed(<<"(","d","i","f","f","e","r","e","n","t"," ","f","r","o","m"," ","p","r","e","v","i","o","u","s",")">>)

-----------------------------------------------------------------------------
(* The collectors: what App::new stores of the platform's answers.  Only   *)
(* the fields export_serials writes are kept.                              *)

Sentinel == <<"N","/","A">>

\* system.rs is_placeholder
system_is_placeholder(s) ==
    LET lower == ToLowercase(Trim(s))
    IN \/ lower = <<>>
       \/ Contains(lower, <<"t","o"," ","b","e"," ","f","i","l","l","e","d">>)
       \/ Contains(lower, <<"o",".","e",".","m">>)
       \/ lower = <<"d","e","f","a","u","l","t"," ","s","t","r","i","n","g">>
       \/ lower = <<"n","o","t"," ","s","p","e","c","i","f","i","e","d">>
       \/ lower = <<"n","o","n","e">>
       \/ lower = <<"u","n","k","n","o","w","n">>
       \/ lower = <<"s","y","s","t","e","m"," ","s","e","r","i","a","l"," ","n","u","m","b","e","r">>
       \/ lower = <<"s","y","s","t","e","m"," ","p","r","o","d","u","c","t"," ","n","a","m","e">>

\* baseboard.rs is_placeholder
baseboard_is_placeholder(s) ==
    LET lower == ToLowercase(Trim(s))
    IN \/ lower = <<>>
       \/ Contains(lower, <<"t","o"," ","b","e"," ","f","i","l","l","e","d">>)
       \/ Contains(lower, <<"o",".","e",".","m">>)
       \/ Contains(lower, <<"o","e","m">>)
       \/ lower = <<"d","e","f","a","u","l","t"," ","s","t","r","i","n","g">>
       \/ lower = <<"n","o","t"," ","s","p","e","c","i","f","i","e","d">>
       \/ lower = <<"n","o","n","e">>
       \/ lower = <<"n","/","a">>
       \/ lower = <<"u","n","k","n","o","w","n">>
       \/ lower = <<"s","y","s","t","e","m"," ","s","e","r","i","a","l"," ","n","u","m","b","e","r">>
       \/ lower = <<"s","y","s","t","e","m"," ","p","r","o","d","u","c","t"," ","n","a","m","e">>
       \/ lower = <<"b","a","s","e"," ","b","o","a","r","d"," ","s","e","r","i","a","l"," ","n","u","m","b","e","r">>
       \/ lower = <<"c","h","a","s","s","i","s"," ","s","e","r","i","a","l"," ","n","u","m","b","e","r">>

\* chassis.rs is_placeholder
chassis_is_placeholder(s) ==
    LET lower == ToLowercase(Trim(s))
    IN \/ lower = <<>>
       \/ Contains(lower, <<"t","o"," ","b","e"," ","f","i","l","l","e","d">>)
       \/ Contains(lower, <<"o",".","e",".","m">>)
       \/ lower = <<"d","e","f","a","u","l","t"," ","s","t","r","i","n","g">>
       \/ lower = <<"n","o","t"," ","s","p","e","c","i","f","i","e","d">>
       \/ lower = <<"n","o","n","e">>
       \/ lower = <<"u","n","k","n","o","w","n">>
       \/ lower = <<"c","h","a","s","s","i","s"," ","s","e","r","i","a","l"," ","n","u","m","b","e","r">>

\* processor.rs: the closure given to filter
processor_is_exposed(s) == Trim(s) # <<>> /\ Trim(s) # <<"T","o"," ","B","e"," ","F","i","l","l","e","d"," ","B","y"," ","O",".","E",".","M",".">>

\* Option::or_else
OrElse(a, b) == IF a.some THEN a ELSE b

\* SystemInfo::collect_windows: .filter(|s| !is_placeholder(s)).unwrap_or("N/A")
SystemField(o) == IF o.some /\ ~system_is_placeholder(Unwrap(o)) THEN Unwrap(o) ELSE Sentinel
\* BaseboardInfo::collect_windows
BaseboardField(o) ==
    IF o.some /\ ~baseboard_is_placeholder(Unwrap(o)) THEN Unwrap(o) ELSE Sentinel
\* ChassisInfo::collect_windows
ChassisField(o) == IF o.some /\ ~chassis_is_placeholder(Unwrap(o)) THEN Unwrap(o) ELSE Sentinel
\* ProcessorInfo::collect_windows
ProcessorField(o) ==
    IF o.some /\ processor_is_exposed(Unwrap(o)) THEN Unwrap(o) ELSE <<"(","N","o","t"," ","E","x","p","o","s","e","d",")">>

\* DiskInfo::collect_windows: one DiskEntry per Win32_DiskDrive row, the WWN
\* from the MSFT_Disk row of the same index
DiskEntryOf(drives, msft_disks, i) ==
    [model |-> IF drives[i].model.some THEN Unwrap(drives[i].model) ELSE <<"U","n","k","n","o","w","n">>,
     storage_query |->
        IF drives[i].serial_number.some /\ Trim(Unwrap(drives[i].serial_number)) # <<>>
        THEN Trim(Unwrap(drives[i].serial_number)) ELSE Sentinel,
     wwn |-> IF i <= Len(msft_disks) /\ msft_disks[i].unique_id.some
             THEN Unwrap(msft_disks[i].unique_id) ELSE Sentinel]

\* NetworkInfo::collect_windows: adapters without a MAC are skipped
RECURSIVE InterfacesOf(_)
InterfacesOf(adapters) ==
    IF adapters = <<>> THEN <<>>
    ELSE LET adapter == Head(adapters)
         IN (IF adapter.mac_address.some
             THEN <<[name |-> IF adapter.name.some THEN Unwrap(adapter.name)
                              ELSE <<"U","n","k","n","o","w","n">>,
                     mac_address |-> Unwrap(adapter.mac_address)]>>
             ELSE <<>>)
            \o InterfacesOf(Tail(adapters))

\* the decimal digits of a small natural number, as Display writes it
RECURSIVE ToDecimal(_)
ToDecimal(n) ==
    LET digit == <<"0", "1", "2", "3", "4", "5", "6", "7", "8", "9">>[(n % 10) + 1]
    IN IF n < 10 THEN <<digit>> ELSE ToDecimal(n \div 10) \o <<digit>>

\* MonitorInfo::decode_wmi_string, on the decoded characters of the array
DecodeWmiString(data) ==
    IF data.some /\ Trim(Unwrap(data)) # <<>> THEN Some(Trim(Unwrap(data))) ELSE None

\* MonitorInfo::extract_serial_from_pnp: what follows the last backslash
ExtractSerialFromPnp(pnp_id) ==
    IF ~pnp_id.some THEN Sentinel
    ELSE LET id == Unwrap(pnp_id)
             at == {i \in 1..Len(id) : id[i] = "\\"}
         IN IF at = {} THEN id ELSE SubSeq(id, Max(at) + 1, Len(id))

\* MonitorInfo::collect_windows, a WmiMonitorID row
MonitorEntryOf(wmi_ids, i) ==
    LET model == OrElse(DecodeWmiString(wmi_ids[i].user_friendly_name),
                        DecodeWmiString(wmi_ids[i].product_code_id))
        serial == DecodeWmiString(wmi_ids[i].serial_number_id)
    IN [display_name |-> <<"\\","D","I","S","P","L","A","Y">> \o ToDecimal(i),
        model |-> IF model.some THEN Unwrap(model) ELSE <<"U","n","k","n","o","w","n">>,
        serial_number |-> IF serial.some THEN Unwrap(serial) ELSE Sentinel,
        id_serial |-> IF serial.some THEN Unwrap(serial) ELSE Sentinel]

\* MonitorInfo::collect_windows, a Win32_DesktopMonitor row of the fallback
DesktopMonitorEntryOf(desktop_monitors, i) ==
    LET model == OrElse(desktop_monitors[i].monitor_type, desktop_monitors[i].name)
    IN [display_name |-> <<"\\","D","I","S","P","L","A","Y">> \o ToDecimal(i),
        model |-> IF model.some THEN Unwrap(model) ELSE <<"U","n","k","n","o","w","n">>,
        serial_number |-> ExtractSerialFromPnp(desktop_monitors[i].pnp_device_id),
        id_serial |-> IF desktop_monitors[i].pnp_device_id.some
                      THEN Unwrap(desktop_monitors[i].pnp_device_id) ELSE Sentinel]

\* MonitorInfo::collect_windows: the WmiMonitorID rows, or when there are
\* none the Win32_DesktopMonitor rows
MonitorsOf(wmi_ids, desktop_monitors) ==
    IF wmi_ids # <<>>
    THEN [i \in 1..Len(wmi_ids) |-> MonitorEntryOf(wmi_ids, i)]
    ELSE [i \in 1..Len(desktop_monitors) |->
              DesktopMonitorEntryOf(desktop_monitors, i)]

\* GpuInfo::collect_windows: the vendor, from AdapterCompatibility or the name
GpuVendor(controller, name) ==
    IF controller.adapter_compatibility.some
    THEN Unwrap(controller.adapter_compatibility)
    ELSE IF Contains(name, <<"N","V","I","D","I","A">>) \/ Contains(name, <<"G","e","F","o","r","c","e">>)
            \/ Contains(name, <<"R","T","X">>) \/ Contains(name, <<"G","T","X">>) THEN <<"N","V","I","D","I","A">>
    ELSE IF Contains(name, <<"A","M","D">>) \/ Contains(name, <<"R","a","d","e","o","n">>) THEN <<"A","M","D">>
    ELSE IF Contains(name, <<"I","n","t","e","l">>) THEN <<"I","n","t","e","l">>
    ELSE <<"U","n","k","n","o","w","n">>

\* GpuInfo::get_gpu_guid: the ClassGUID under the device's Enum key
get_gpu_guid(class_guid, vendor) ==
    IF class_guid.some THEN Unwrap(class_guid)
    ELSE IF Contains(vendor, <<"A","M","D">>) \/ Contains(vendor, <<"R","a","d","e","o","n">>)
    THEN <<"N","/","A"," ","(","L","I","K","E","L","Y"," ","A","M","D"," ","G","P","U",")">>
    ELSE Sentinel

\* GpuInfo::collect_windows, a Win32_VideoController row
GpuEntryOf(controller) ==
    LET found == OrElse(controller.name, controller.video_processor)
        name == IF found.some THEN Unwrap(found) ELSE <<"U","n","k","n","o","w","n">>
    IN [name |-> name,
        pci_device |-> IF controller.pnp_device_id.some
                       THEN Unwrap(controller.pnp_device_id) ELSE Sentinel,
        guid |-> get_gpu_guid(controller.class_guid, GpuVendor(controller, name))]

\* the *_info defaults: every field "N/A", every list empty
DefaultSnapshot ==
    [system_info |-> [serial_number |-> Sentinel, uuid |-> Sentinel, sku |-> Sentinel],
     baseboard_info |-> [serial_number |-> Sentinel, asset_tag |-> Sentinel],
     processor_info |-> [serial_number |-> Sentinel, part_number |-> Sentinel],
     chassis_info |-> [serial_number |-> Sentinel, asset_tag |-> Sentinel,
                       sku |-> Sentinel],
     disk_info |-> <<>>,
     network_info |-> <<>>,
     monitor_info |-> <<>>,
     gpu_info |-> <<>>]

\* the collect_windows functions, each on the rows its WMI queries return
collect_windows(inv) ==
    [system_info |->
        [serial_number |-> SystemField(inv.product.identifying_number),
         uuid |-> SystemField(inv.product.uuid),
         sku |-> SystemField(OrElse(inv.system.system_sku_number,
                                    inv.product.sku_number))],
     baseboard_info |->
        [serial_number |-> BaseboardField(inv.board.serial_number),
         asset_tag |-> BaseboardField(inv.board.tag)],
     processor_info |->
        [serial_number |-> ProcessorField(inv.proc.serial_number),
         part_number |-> ProcessorField(inv.proc.part_number)],
     chassis_info |->
        [serial_number |-> ChassisField(inv.enclosure.serial_number),
         asset_tag |-> ChassisField(inv.enclosure.smbios_asset_tag),
         sku |-> ChassisField(inv.enclosure.sku)],
     disk_info |-> [i \in 1..Len(inv.drives) |->
                        DiskEntryOf(inv.drives, inv.msft_disks, i)],
     network_info |-> InterfacesOf(inv.adapters),
     monitor_info |-> MonitorsOf(inv.wmi_ids, inv.desktop_monitors),
     gpu_info |-> [i \in 1..Len(inv.controllers) |-> GpuEntryOf(inv.controllers[i])]]

\* the collect functions of App::new: cfg(windows) or the defaults
collect(plat, inv) == IF plat = "windows" THEN collect_windows(inv) ELSE DefaultSnapshot

-----------------------------------------------------------------------------
(* App::export_serials: the text of serials_export.txt *)

\* the concatenation of a sequence of strings
RECURSIVE Concat(_)
Concat(parts) == IF parts = <<>> THEN <<>> ELSE Head(parts) \o Concat(Tail(parts))

\* the DISKS loop, one pass
ExportDisk(i, disk) ==
    <<"D","i","s","k"," ">> \o ToDecimal(i) \o <<":"," ">> \o disk.model \o <<"\n">>
    \o <<" "," ","S","e","r","i","a","l"," ","(","S","t","o","r","a","g","e"," ","Q","u","e","r","y",")",":"," ">> \o disk.storage_query \o <<"\n">>
    \o <<" "," ","W","W","N",":"," ">> \o disk.wwn \o <<"\n">>

\* the NETWORK loop, one pass
ExportInterface(iface) == iface.name \o <<":"," ">> \o iface.mac_address \o <<"\n">>

\* the MONITORS loop, one pass
ExportMonitor(monitor) ==
    monitor.display_name \o <<":"," ">> \o monitor.model \o <<"\n">>
    \o <<" "," ","S","e","r","i","a","l"," ","N","u","m","b","e","r",":"," ">> \o monitor.serial_number \o <<"\n">>
    \o <<" "," ","I","D"," ","S","e","r","i","a","l",":"," ">> \o monitor.id_serial \o <<"\n">>

\* the GPU loop, one pass
ExportGpu(gpu) ==
    gpu.name \o <<"\n">>
    \o <<" "," ","P","C","I"," ","D","e","v","i","c","e",":"," ">> \o gpu.pci_device \o <<"\n">>
    \o <<" "," ","G","U","I","D",":"," ">> \o gpu.guid \o <<"\n">>

\* the SYSTEM section
ExportSystem(system_info) ==
    <<"=","=","="," ","S","Y","S","T","E","M"," ","=","=","=","\n">>
    \o <<"S","e","r","i","a","l"," ","N","u","m","b","e","r",":"," ">> \o system_info.serial_number \o <<"\n">>
    \o <<"U","U","I","D",":"," ">> \o system_info.uuid \o <<"\n">>
    \o <<"S","K","U",":"," ">> \o system_info.sku \o <<"\n","\n">>

\* the content export_serials builds; now is Local::now() as
\* "%Y-%m-%d %H:%M:%S"
export_content(snap, now) ==
    <<"=","=","="," ","S","E","R","I","A","L"," ","E","X","P","O","R","T"," ","=","=","=","\n">>
    \o <<"G","e","n","e","r","a","t","e","d",":"," ">> \o now \o <<"\n","\n">>
    \o ExportSystem(snap.system_info)
    \o <<"=","=","="," ","B","A","S","E","B","O","A","R","D"," ","=","=","=","\n">>
    \o <<"S","e","r","i","a","l"," ","N","u","m","b","e","r",":"," ">> \o snap.baseboard_info.serial_number \o <<"\n">>
    \o <<"A","s","s","e","t"," ","T","a","g",":"," ">> \o snap.baseboard_info.asset_tag \o <<"\n","\n">>
    \o <<"=","=","="," ","P","R","O","C","E","S","S","O","R"," ","=","=","=","\n">>
    \o <<"S","e","r","i","a","l"," ","N","u","m","b","e","r",":"," ">> \o snap.processor_info.serial_number \o <<"\n">>
    \o <<"P","a","r","t"," ","N","u","m","b","e","r",":"," ">> \o snap.processor_info.part_number \o <<"\n","\n">>
    \o <<"=","=","="," ","C","H","A","S","S","I","S"," ","=","=","=","\n">>
    \o <<"S","e","r","i","a","l"," ","N","u","m","b","e","r",":"," ">> \o snap.chassis_info.serial_number \o <<"\n">>
    \o <<"A","s","s","e","t"," ","T","a","g",":"," ">> \o snap.chassis_info.asset_tag \o <<"\n">>
    \o <<"S","K","U",":"," ">> \o snap.chassis_info.sku \o <<"\n","\n">>
    \o <<"=","=","="," ","D","I","S","K","S"," ","=","=","=","\n">>
    \o Concat([i \in 1..Len(snap.disk_info) |-> ExportDisk(i, snap.disk_info[i])])
    \o <<"\n">>
    \o <<"=","=","="," ","N","E","T","W","O","R","K"," ","=","=","=","\n">>
    \o Concat([i \in 1..Len(snap.network_info) |-> ExportInterface(snap.network_info[i])])
    \o <<"\n">>
    \o <<"=","=","="," ","M","O","N","I","T","O","R","S"," ","=","=","=","\n">>
    \o Concat([i \in 1..Len(snap.monitor_info) |-> ExportMonitor(snap.monitor_info[i])])
    \o <<"\n">>
    \o <<"=","=","="," ","G","P","U"," ","=","=","=","\n">>
    \o Concat([i \in 1..Len(snap.gpu_info) |-> ExportGpu(snap.gpu_info[i])])

\* let filename = "serials_export.txt"
ExportFilename == <<"s","e","r","i","a","l","s","_","e","x","p","o","r","t",".","t","x","t">>

-----------------------------------------------------------------------------
(* PreviousSerials::parse *)

\* the match on (current_section, key) for a value that is recorded
ParseDispatchMutOther(serials, section, key, value) ==
    CASE section = <<"S","Y","S","T","E","M">> /\ key = <<"S","e","r","i","a","l"," ","N","u","m","b","e","r">> ->
            [serials EXCEPT !.system_serial = Some(value)]
      [] section = <<"S","Y","S","T","E","M">> /\ key = <<"U","U","I","D">> ->
            [serials EXCEPT !.system_uuid = Some(value)]
      [] section = <<"S","Y","S","T","E","M">> /\ key = <<"S","K","U">> ->
            [serials EXCEPT !.system_sku = Some(value)]
      [] section = <<"B","A","S","E","B","O","A","R","D">> /\ key = <<"S","e","r","i","a","l"," ","N","u","m","b","e","r">> ->
            [serials EXCEPT !.baseboard_serial = Some(value)]
      [] section = <<"P","R","O","C","E","S","S","O","R">> /\ key = <<"S","e","r","i","a","l"," ","N","u","m","b","e","r">> ->
            [serials EXCEPT !.processor_serial = Some(value)]
      [] section = <<"C","H","A","S","S","I","S">> /\ key = <<"S","e","r","i","a","l"," ","N","u","m","b","e","r">> ->
            [serials EXCEPT !.chassis_serial = Some(value)]
      [] section = <<"D","I","S","K","S">> /\ Contains(key, <<"S","e","r","i","a","l">>) ->
            [serials EXCEPT !.disk_serials = Append(@, value)]
      [] section = <<"N","E","T","W","O","R","K">> ->
            [serials EXCEPT !.network_macs = Append(@, value)]
      [] section = <<"M","O","N","I","T","O","R","S">> /\ key = <<"S","e","r","i","a","l"," ","N","u","m","b","e","r">> ->
            [serials EXCEPT !.monitor_serials = Append(@, value)]
      [] section = <<"G","P","U">> /\ Contains(key, <<"G","U","I","D">>) ->
            [serials EXCEPT !.gpu_guids = Append(@, value)]
      [] OTHER -> [serials EXCEPT !.system_serial = Some(value)]
ParseDispatchMutFirstWins(serials, section, key, value) ==
    CASE section = <<"S","Y","S","T","E","M">> /\ key = <<"S","e","r","i","a","l"," ","N","u","m","b","e","r">> ->
            [serials EXCEPT !.system_serial = IF @.some THEN @ ELSE Some(value)]
      [] section = <<"S","Y","S","T","E","M">> /\ key = <<"U","U","I","D">> ->
            [serials EXCEPT !.system_uuid = IF @.some THEN @ ELSE Some(value)]
      [] section = <<"S","Y","S","T","E","M">> /\ key = <<"S","K","U">> ->
            [serials EXCEPT !.system_sku = IF @.some THEN @ ELSE Some(value)]
      [] section = <<"B","A","S","E","B","O","A","R","D">> /\ key = <<"S","e","r","i","a","l"," ","N","u","m","b","e","r">> ->
            [serials EXCEPT !.baseboard_serial = IF @.some THEN @ ELSE Some(value)]
      [] section = <<"P","R","O","C","E","S","S","O","R">> /\ key = <<"S","e","r","i","a","l"," ","N","u","m","b","e","r">> ->
            [serials EXCEPT !.processor_serial = IF @.some THEN @ ELSE Some(value)]
      [] section = <<"C","H","A","S","S","I","S">> /\ key = <<"S","e","r","i","a","l"," ","N","u","m","b","e","r">> ->
            [serials EXCEPT !.chassis_serial = IF @.some THEN @ ELSE Some(value)]
      [] section = <<"D","I","S","K","S">> /\ Contains(key, <<"S","e","r","i","a","l">>) ->
            [serials EXCEPT !.disk_serials = Append(@, value)]
      [] section = <<"N","E","T","W","O","R","K">> ->
            [serials EXCEPT !.network_macs = Append(@, value)]
      [] section = <<"M","O","N","I","T","O","R","S">> /\ key = <<"S","e","r","i","a","l"," ","N","u","m","b","e","r">> ->
            [serials EXCEPT !.monitor_serials = Append(@, value)]
      [] section = <<"G","P","U">> /\ Contains(key, <<"G","U","I","D">>) ->
            [serials EXCEPT !.gpu_guids = Append(@, value)]
      [] OTHER -> serials
ParseDispatchMutIdSerial(serials, section, key, value) ==
    CASE section = <<"S","Y","S","T","E","M">> /\ key = <<"S","e","r","i","a","l"," ","N","u","m","b","e","r">> ->
            [serials EXCEPT !.system_serial = Some(value)]
      [] section = <<"S","Y","S","T","E","M">> /\ key = <<"U","U","I","D">> ->
            [serials EXCEPT !.system_uuid = Some(value)]
      [] section = <<"S","Y","S","T","E","M">> /\ key = <<"S","K","U">> ->
            [serials EXCEPT !.system_sku = Some(value)]
      [] section = <<"B","A","S","E","B","O","A","R","D">> /\ key = <<"S","e","r","i","a","l"," ","N","u","m","b","e","r">> ->
            [serials EXCEPT !.baseboard_serial = Some(value)]
      [] section = <<"P","R","O","C","E","S","S","O","R">> /\ key = <<"S","e","r","i","a","l"," ","N","u","m","b","e","r">> ->
            [serials EXCEPT !.processor_serial = Some(value)]
      [] section = <<"C","H","A","S","S","I","S">> /\ key = <<"S","e","r","i","a","l"," ","N","u","m","b","e","r">> ->
            [serials EXCEPT !.chassis_serial = Some(value)]
      [] section = <<"D","I","S","K","S">> /\ Contains(key, <<"S","e","r","i","a","l">>) ->
            [serials EXCEPT !.disk_serials = Append(@, value)]
      [] section = <<"N","E","T","W","O","R","K">> ->
            [serials EXCEPT !.network_macs = Append(@, value)]
      [] section = <<"M","O","N","I","T","O","R","S">> /\ Contains(key, <<"S","e","r","i","a","l">>) ->
            [serials EXCEPT !.monitor_serials = Append(@, value)]
      [] section = <<"G","P","U">> /\ Contains(key, <<"G","U","I","D">>) ->
            [serials EXCEPT !.gpu_guids = Append(@, value)]
      [] OTHER -> serials
ParseDispatch(serials, section, key, value) ==
    CASE section = <<"S","Y","S","T","E","M">> /\ key = <<"S","e","r","i","a","l"," ","N","u","m","b","e","r">> ->
            [serials EXCEPT !.system_serial = Some(value)]
      [] section = <<"S","Y","S","T","E","M">> /\ key = <<"U","U","I","D">> ->
            [serials EXCEPT !.system_uuid = Some(value)]
      [] section = <<"S","Y","S","T","E","M">> /\ key = <<"S","K","U">> ->
            [serials EXCEPT !.system_sku = Some(value)]
      [] section = <<"B","A","S","E","B","O","A","R","D">> /\ key = <<"S","e","r","i","a","l"," ","N","u","m","b","e","r">> ->
            [serials EXCEPT !.baseboard_serial = Some(value)]
      [] section = <<"P","R","O","C","E","S","S","O","R">> /\ key = <<"S","e","r","i","a","l"," ","N","u","m","b","e","r">> ->
            [serials EXCEPT !.processor_serial = Some(value)]
      [] section = <<"C","H","A","S","S","I","S">> /\ key = <<"S","e","r","i","a","l"," ","N","u","m","b","e","r">> ->
            [serials EXCEPT !.chassis_serial = Some(value)]
      [] section = <<"D","I","S","K","S">> /\ Contains(key, <<"S","e","r","i","a","l">>) ->
            [serials EXCEPT !.disk_serials = Append(@, value)]
      [] section = <<"N","E","T","W","O","R","K">> ->
            [serials EXCEPT !.network_macs = Append(@, value)]
      [] section = <<"M","O","N","I","T","O","R","S">> /\ key = <<"S","e","r","i","a","l"," ","N","u","m","b","e","r">> ->
            [serials EXCEPT !.monitor_serials = Append(@, value)]
      [] section = <<"G","P","U">> /\ Contains(key, <<"G","U","I","D">>) ->
            [serials EXCEPT !.gpu_guids = Append(@, value)]
      [] OTHER -> serials

\* one pass of the loop over content.lines(): st is (serials, current_section)
ParseLineMutKeepsSentinel(st, untrimmed) ==
    LET line == Trim(untrimmed)
        kv == SplitOnce(line, ":")
    IN IF StartsWith(line, <<"=","=","=">>) /\ EndsWith(line, <<"=","=","=">>)
       THEN [st EXCEPT !.current_section = Trim(TrimMatches(line, "="))]
       ELSE IF ~kv.some THEN st
       ELSE LET key == Trim(Unwrap(kv)[1])
                value == Trim(Unwrap(kv)[2])
            IN IF value = <<>> THEN st
               ELSE [st EXCEPT !.serials =
                        ParseDispatch(st.serials, st.current_section, key, value)]
ParseLineMutFirstHeader(st, untrimmed) ==
    LET line == Trim(untrimmed)
        kv == SplitOnce(line, ":")
    IN IF StartsWith(line, <<"=","=","=">>) /\ EndsWith(line, <<"=","=","=">>)
       THEN IF st.current_section = <<>>
            THEN [st EXCEPT !.current_section = Trim(TrimMatches(line, "="))]
            ELSE st
       ELSE IF ~kv.some THEN st
       ELSE LET key == Trim(Unwrap(kv)[1])
                value == Trim(Unwrap(kv)[2])
            IN IF value = <<>> \/ value = <<"N","/","A">> THEN st
               ELSE [st EXCEPT !.serials =
                        ParseDispatch(st.serials, st.current_section, key, value)]
ParseLine(st, untrimmed) ==
    LET line == Trim(untrimmed)
        kv == SplitOnce(line, ":")
    IN IF StartsWith(line, <<"=","=","=">>) /\ EndsWith(line, <<"=","=","=">>)
       THEN [st EXCEPT !.current_section = Trim(TrimMatches(line, "="))]
       ELSE IF ~kv.some THEN st
       ELSE LET key == Trim(Unwrap(kv)[1])
                value == Trim(Unwrap(kv)[2])
            IN IF value = <<>> \/ value = <<"N","/","A">> THEN st
               ELSE [st EXCEPT !.serials =
                        ParseDispatch(st.serials, st.current_section, key, value)]

\* the loop over content.lines(), lines lo..hi from the state st: the first
\* half, then the second half from the state the first half has left
RECURSIVE ParseLines(_, _, _, _)
ParseLines(lines, lo, hi, st) ==
    IF lo > hi THEN st
    ELSE IF lo = hi THEN ParseLine(st, lines[lo])
    ELSE LET mid == (lo + hi) \div 2
         IN CHOOSE done \in
                {ParseLines(lines, mid + 1, hi, half) :
                    half \in {ParseLines(lines, lo, mid, st)}} : TRUE

parse(content) ==
    LET lines == Lines(content)
    IN ParseLines(lines, 1, Len(lines),
                  [serials |-> DefaultPreviousSerials, current_section |-> <<>>]).serials

-----------------------------------------------------------------------------
(* The platform signals the evaluator reads *)

\* a registry value: its key may not open, the value may be missing or of
\* another type, or it holds v
RegMissingKey(dflt) == [key |-> FALSE, has |-> FALSE, v |-> dflt]
RegMissingValue(dflt) == [key |-> TRUE, has |-> FALSE, v |-> dflt]
RegValue(x) == [key |-> TRUE, has |-> TRUE, v |-> x]

RegEntries(values, dflt) ==
    {RegMissingKey(dflt), RegMissingValue(dflt)} \cup {RegValue(x) : x \in values}

Manufacturers ==
    {<<"D","e","l","l"," ","I","n","c",".">>, <<"H","P">>, <<"H","e","w","l","e","t","t","-","P","a","c","k","a","r","d">>, <<"L","E","N","O","V","O">>, <<"A","S","U","S","T","e","K"," ","C","O","M","P","U","T","E","R"," ","I","N","C",".">>,
     <<"M","i","c","r","o","-","S","t","a","r"," ","I","n","t","e","r","n","a","t","i","o","n","a","l"," ","C","o",".",","," ","L","t","d",".">>, <<"M","S","I">>, <<"G","i","g","a","b","y","t","e"," ","T","e","c","h","n","o","l","o","g","y"," ","C","o",".",","," ","L","t","d",".">>,
     <<"A","S","R","o","c","k">>, <<"A","c","e","r">>, <<"M","S","I"," ","b","y"," ","h","p">>, <<"V","M","w","a","r","e",","," ","I","n","c",".">>}

NoRegistry ==
    [SystemManufacturer |-> RegMissingKey(<<>>),
     UEFISecureBootEnabled |-> RegMissingKey(0),
     TpmStart |-> RegMissingKey(0),
     EnableVirtualizationBasedSecurity |-> RegMissingKey(0),
     HvciEnabled |-> RegMissingKey(0)]

\* the HypervisorEnforcedCodeIntegrity key lies under the DeviceGuard key
Registries ==
    {r \in [SystemManufacturer : RegEntries(Manufacturers, <<>>),
            UEFISecureBootEnabled : RegEntries({0, 1}, 0),
            TpmStart : RegEntries({3, 4}, 0),
            EnableVirtualizationBasedSecurity : RegEntries({0, 1}, 0),
            HvciEnabled : RegEntries({0, 1}, 0)] :
        r.HvciEnabled.key => r.EnableVirtualizationBasedSecurity.key}

-----------------------------------------------------------------------------
(* Defaults of the state a specification does not use *)

NoCmp == [op |-> "none", category |-> <<>>, current |-> <<>>,
          status |-> "none", old |-> <<>>]

IdleLock ==
    /\ platform = "other"
    /\ registry = NoRegistry
    /\ locked_info = DefaultLockedInfo
    /\ spoofing_advice = <<>>

IdleApp ==
    /\ raw = <<>>
    /\ snapshot = <<>>
    /\ file = None
    /\ previous_serials = None
    /\ current_tab = 0
    /\ scroll_offset = 0
    /\ status_message = None

-----------------------------------------------------------------------------
(* The lock posture and the advice: what App keeps in locked_info and      *)
(* spoofing_advice                                                         *)

InitLock ==
    /\ pc = "start"
    /\ \/ platform = "windows" /\ registry \in Registries
       \/ platform = "other" /\ registry = NoRegistry
    /\ locked_info = DefaultLockedInfo
    /\ spoofing_advice = <<>>
    /\ IdleApp
    /\ cmp = NoCmp
    /\ terminal = TerminalOff

Detect ==
    /\ pc = "start"
    /\ locked_info' = detect(platform, registry)
    /\ pc' = "detected"
    /\ UNCHANGED <<terminal, platform, registry, spoofing_advice, appVars, cmp>>

GenerateAdvice ==
    /\ pc = "detected"
    /\ spoofing_advice' = generate_spoofing_advice(locked_info)
    /\ pc' = "advised"
    /\ UNCHANGED <<terminal, platform, registry, locked_info, appVars, cmp>>

NextLock == Detect \/ GenerateAdvice

SpecLock == InitLock /\ [][NextLock]_vars

-----------------------------------------------------------------------------
(* The signals, read off the platform state *)

RegPresent(entry) == platform = "windows" /\ entry.key /\ entry.has

SigOem ==
    /\ RegPresent(registry.SystemManufacturer)
    /\ \E p \in {<<"d","e","l","l">>, <<"h","p">>, <<"h","e","w","l","e","t","t">>, <<"l","e","n","o","v","o">>} :
          Contains(ToLowercase(registry.SystemManufacturer.v), p)
SigSecureBoot ==
    RegPresent(registry.UEFISecureBootEnabled) /\ registry.UEFISecureBootEnabled.v = 1
SigTpm == RegPresent(registry.TpmStart) /\ registry.TpmStart.v # 4
SigVbs ==
    /\ RegPresent(registry.EnableVirtualizationBasedSecurity)
    /\ registry.EnableVirtualizationBasedSecurity.v = 1
SigHvci == RegPresent(registry.HvciEnabled) /\ registry.HvciEnabled.v = 1

Detected == pc \in {"detected", "advised"}

AdviceIndex(category) ==
    {i \in 1..Len(spoofing_advice) : spoofing_advice[i].category = category}

\* C5: the posture has overall_locked = is_oem_system \/ secure_boot_enforced
\* \/ bios_write_protected; with TPM the only active signal, tpm_locked is
\* true and overall_locked is false.
C5_OverallLockedIsOr ==
    Detected =>
        /\ locked_info.overall_locked =
              (locked_info.is_oem_system \/ locked_info.secure_boot_enforced
                  \/ locked_info.bios_write_protected)
        /\ locked_info.overall_locked = (SigOem \/ SigSecureBoot \/ SigVbs \/ SigHvci)
        /\ (SigTpm /\ ~SigOem /\ ~SigSecureBoot /\ ~SigVbs /\ ~SigHvci)
              => (locked_info.tpm_locked /\ ~locked_info.overall_locked)

C5_Witness ==
    /\ Detected
    /\ SigTpm /\ ~SigOem /\ ~SigSecureBoot /\ ~SigVbs /\ ~SigHvci
    /\ locked_info.tpm_locked
    /\ ~locked_info.overall_locked

\* C6: the advice holds the "Medium" TPM entry (category "TPM") whenever
\* tpm_locked is true, also when overall_locked is false, and no TPM entry
\* when tpm_locked is false.
C6_TpmEntryIffTpmLocked ==
    pc = "advised" =>
        /\ locked_info.tpm_locked =>
              \E i \in AdviceIndex("TPM") : spoofing_advice[i].difficulty = "Medium"
        /\ ~locked_info.tpm_locked => AdviceIndex("TPM") = {}

\* C6, the case that fails: TPM the only active signal, tpm_locked true,
\* and the advice generated without a TPM entry
C6_Witness ==
    /\ pc = "advised"
    /\ locked_info.tpm_locked
    /\ ~locked_info.overall_locked
    /\ AdviceIndex("TPM") = {}

\* C7: the advice has 5 entries, plus one for secure_boot_enforced, plus one
\* for tpm_locked.
C7_AdviceCount ==
    pc = "advised" =>
        /\ Len(spoofing_advice) =
              5 + (IF locked_info.secure_boot_enforced THEN 1 ELSE 0)
                + (IF locked_info.tpm_locked THEN 1 ELSE 0)
        /\ Len(spoofing_advice) \in 5..7
        /\ (~SigOem /\ ~SigSecureBoot /\ ~SigTpm /\ ~SigVbs /\ ~SigHvci)
              => Len(spoofing_advice) = 5
        /\ (SigOem /\ SigSecureBoot /\ ~SigTpm /\ ~SigVbs /\ ~SigHvci)
              => Len(spoofing_advice) = 6

\* C7, the case that fails: tpm_locked true, secure boot off, and the
\* advice has 5 entries, not 5 + 1
C7_Witness ==
    /\ pc = "advised"
    /\ locked_info.tpm_locked
    /\ ~locked_info.secure_boot_enforced
    /\ Len(spoofing_advice) = 5

\* C8: exactly one SMBIOS/Motherboard entry, the first one, "Advanced" with
\* the EFI-level method exactly when overall_locked and "Medium" with the
\* registry/driver method exactly when not; the last four entries are Disk
\* Serials (Advanced), Network MAC (Easy), GPU GUID (Medium), Monitor Serial
\* (Advanced); a Secure Boot entry precedes a TPM entry, both between the
\* motherboard entry and the Disk Serials entry.
C8_AdviceOrder ==
    pc = "advised" =>
        LET a == spoofing_advice
            n == Len(spoofing_advice)
            between == 2..(n - 4)
        IN /\ n >= 5
           /\ AdviceIndex("SMBIOS/Motherboard") = {1}
           /\ locked_info.overall_locked <=>
                 (a[1].difficulty = "Advanced" /\ a[1].method = "EFI-Level Spoofing")
           /\ ~locked_info.overall_locked <=>
                 (a[1].difficulty = "Medium" /\ a[1].method = "Registry + Driver Spoofing")
           /\ <<a[n - 3].category, a[n - 3].difficulty>> = <<"Disk Serials", "Advanced">>
           /\ <<a[n - 2].category, a[n - 2].difficulty>> = <<"Network MAC", "Easy">>
           /\ <<a[n - 1].category, a[n - 1].difficulty>> = <<"GPU GUID", "Medium">>
           /\ <<a[n].category, a[n].difficulty>> = <<"Monitor Serial", "Advanced">>
           /\ AdviceIndex("Disk Serials") = {n - 3}
           /\ AdviceIndex("Secure Boot") \subseteq between
           /\ AdviceIndex("TPM") \subseteq between
           /\ \A i \in AdviceIndex("Secure Boot") : \A j \in AdviceIndex("TPM") : i < j

C8_Witness ==
    /\ pc = "advised"
    /\ Len(spoofing_advice) = 7
    /\ AdviceIndex("Secure Boot") = {2}
    /\ AdviceIndex("TPM") = {3}
    /\ locked_info.overall_locked

\* the vendor named by the reason of a tier-1 manufacturer
TierVendor(lower) ==
    IF Contains(lower, <<"d","e","l","l">>) THEN <<"D","e","l","l">>
    ELSE IF Contains(lower, <<"h","p">>) \/ Contains(lower, <<"h","e","w","l","e","t","t">>) THEN <<"H","P">>
    ELSE <<"L","e","n","o","v","o">>

ExpectedReasons ==
    (IF SigOem
     THEN <<TierVendor(ToLowercase(registry.SystemManufacturer.v))
              \o <<" ","O","E","M"," ","s","y","s","t","e","m"," ","d","e","t","e","c","t","e","d"," ","-"," ","B","I","O","S"," ","t","y","p","i","c","a","l","l","y"," ","l","o","c","k","e","d">>>>
     ELSE <<>>)
    \o (IF SigSecureBoot
        THEN <<<<"S","e","c","u","r","e"," ","B","o","o","t"," ","e","n","a","b","l","e","d"," ","-"," ","E","F","I"," ","m","o","d","i","f","i","c","a","t","i","o","n","s"," ","r","e","s","t","r","i","c","t","e","d">>>> ELSE <<>>)
    \o (IF SigTpm
        THEN <<<<"T","P","M"," ","a","c","t","i","v","e"," ","-"," ","H","a","r","d","w","a","r","e"," ","a","t","t","e","s","t","a","t","i","o","n"," ","m","a","y"," ","d","e","t","e","c","t"," ","c","h","a","n","g","e","s">>>> ELSE <<>>)
    \o (IF SigVbs THEN <<<<"V","B","S"," ","e","n","a","b","l","e","d"," ","-"," ","K","e","r","n","e","l","-","l","e","v","e","l"," ","p","r","o","t","e","c","t","i","o","n","s"," ","a","c","t","i","v","e">>>> ELSE <<>>)
    \o (IF SigHvci THEN <<<<"H","V","C","I"," ","e","n","a","b","l","e","d"," ","-"," ","D","r","i","v","e","r"," ","s","i","g","n","i","n","g"," ","e","n","f","o","r","c","e","d">>>> ELSE <<>>)

ActiveSignals ==
    Cardinality({s \in {<<1, SigOem>>, <<2, SigSecureBoot>>, <<3, SigTpm>>,
                        <<4, SigVbs>>, <<5, SigHvci>>} : s[2]})

\* C9: lock_reasons is the sequence of the reasons of the active signals, one
\* per active signal, in the order tier-1 OEM vendor, secure boot, TPM, VBS,
\* HVCI; its length is the number of active signals.
C9_ReasonsInOrder ==
    Detected =>
        /\ locked_info.lock_reasons = ExpectedReasons
        /\ Len(locked_info.lock_reasons) = ActiveSignals

C9_Witness ==
    /\ Detected
    /\ registry.SystemManufacturer.v = <<"D","e","l","l"," ","I","n","c",".">>
    /\ SigOem /\ SigSecureBoot /\ ~SigTpm /\ ~SigVbs /\ ~SigHvci
    /\ Len(locked_info.lock_reasons) = 2
    /\ locked_info.overall_locked

\* C10: the evaluator never fails; a signal whose check cannot be performed
\* counts as false; with every signal absent the five flags are false and
\* lock_reasons is empty.
C10_AbsentIsFalse ==
    Detected =>
        /\ DOMAIN locked_info = DOMAIN DefaultLockedInfo
        /\ \A f \in {"is_oem_system", "bios_write_protected", "secure_boot_enforced",
                      "tpm_locked", "overall_locked"} : locked_info[f] \in BOOLEAN
        /\ ~RegPresent(registry.SystemManufacturer)
              => (~locked_info.is_oem_system /\ locked_info.oem_vendor = <<"U","n","k","n","o","w","n">>)
        /\ ~RegPresent(registry.UEFISecureBootEnabled)
              => ~locked_info.secure_boot_enforced
        /\ ~RegPresent(registry.TpmStart) => ~locked_info.tpm_locked
        /\ (~RegPresent(registry.EnableVirtualizationBasedSecurity)
              /\ ~RegPresent(registry.HvciEnabled))
              => ~locked_info.bios_write_protected
        /\ (/\ ~RegPresent(registry.SystemManufacturer)
            /\ ~RegPresent(registry.UEFISecureBootEnabled)
            /\ ~RegPresent(registry.TpmStart)
            /\ ~RegPresent(registry.EnableVirtualizationBasedSecurity)
            /\ ~RegPresent(registry.HvciEnabled))
              => /\ ~locked_info.is_oem_system
                 /\ ~locked_info.secure_boot_enforced
                 /\ ~locked_info.tpm_locked
                 /\ ~locked_info.bios_write_protected
                 /\ ~locked_info.overall_locked
                 /\ locked_info.lock_reasons = <<>>

C10_Witness ==
    /\ Detected
    /\ platform = "windows"
    /\ registry.SystemManufacturer.key /\ ~registry.SystemManufacturer.has
    /\ ~registry.UEFISecureBootEnabled.key
    /\ ~RegPresent(registry.TpmStart)
    /\ ~RegPresent(registry.EnableVirtualizationBasedSecurity)
    /\ ~RegPresent(registry.HvciEnabled)
    /\ locked_info = DefaultLockedInfo

-----------------------------------------------------------------------------
(* The comparator on its own: a baseline as parse can return it, one       *)
(* comparison of a category and a current value                            *)

MaxListLen == 2

ScalarKeys ==
    {<<"s","y","s","t","e","m","_","s","e","r","i","a","l">>, <<"s","y","s","t","e","m","_","u","u","i","d">>, <<"s","y","s","t","e","m","_","s","k","u">>, <<"b","a","s","e","b","o","a","r","d","_","s","e","r","i","a","l">>,
     <<"p","r","o","c","e","s","s","o","r","_","s","e","r","i","a","l">>, <<"c","h","a","s","s","i","s","_","s","e","r","i","a","l">>}
ListKeys == {<<"d","i","s","k">>, <<"n","e","t","w","o","r","k">>, <<"m","o","n","i","t","o","r">>, <<"g","p","u">>}

BaselineValues == {<<"A","B","C","1","2","3">>, <<"O","L","D","9","9","9">>}
ListValues == {<<"S","N","-","1">>, <<"S","N","-","4","2">>}
CurrentValues == {<<>>, <<"N","/","A">>, <<"A","B","C","1","2","3">>, <<"O","L","D","9","9","9">>, <<"S","N","-","4","2">>, <<"S","N","-","2">>}

BaselineScalars == {None} \cup {Some(x) : x \in BaselineValues}
BaselineLists == UNION {[1..k -> ListValues] : k \in 0..MaxListLen}

\* every scalar independent, the lists empty; or the scalars absent, one
\* list category holding one list and the three others another
Baselines ==
    [system_serial : BaselineScalars, system_uuid : BaselineScalars,
     system_sku : BaselineScalars, baseboard_serial : BaselineScalars,
     processor_serial : BaselineScalars, chassis_serial : BaselineScalars,
     disk_serials : {<<>>}, network_macs : {<<>>},
     monitor_serials : {<<>>}, gpu_guids : {<<>>}]
    \cup
    {[DefaultPreviousSerials EXCEPT
         !.disk_serials = IF k = "disk" THEN one ELSE rest,
         !.network_macs = IF k = "network" THEN one ELSE rest,
         !.monitor_serials = IF k = "monitor" THEN one ELSE rest,
         !.gpu_guids = IF k = "gpu" THEN one ELSE rest] :
       k \in {"disk", "network", "monitor", "gpu"},
       one \in BaselineLists, rest \in BaselineLists}

InitCompare ==
    /\ pc = "start"
    /\ previous_serials \in {Some(b) : b \in Baselines}
    /\ cmp = NoCmp
    /\ terminal = TerminalOff
    /\ IdleLock
    /\ raw = <<>>
    /\ snapshot = <<>>
    /\ file = None
    /\ current_tab = 0
    /\ scroll_offset = 0
    /\ status_message = None

compareVars == <<terminal, lockVars, raw, snapshot, file, previous_serials,
                 current_tab, scroll_offset, status_message>>

\* one call prev.compare(category, current)
Compare(category, current) ==
    /\ pc = "start"
    /\ previous_serials.some
    /\ LET r == compare(Unwrap(previous_serials), category, current)
       IN cmp' = [op |-> "compare", category |-> category, current |-> current,
                  status |-> r.status, old |-> r.old]
    /\ pc' = "compared"
    /\ UNCHANGED compareVars

\* one call prev.compare_list(category, current)
CompareList(category, current) ==
    /\ pc = "start"
    /\ previous_serials.some
    /\ LET r == compare_list(Unwrap(previous_serials), category, current)
       IN cmp' = [op |-> "compare_list", category |-> category,
                  current |-> current, status |-> r.status, old |-> r.old]
    /\ pc' = "compared"
    /\ UNCHANGED compareVars

NextCompare ==
    \E category \in ScalarKeys \cup ListKeys \cup {<<"b","i","o","s","_","s","e","r","i","a","l">>},
       current \in CurrentValues :
        \/ Compare(category, current)
        \/ CompareList(category, current)

SpecCompare == InitCompare /\ [][NextCompare]_vars

\* the baseline scalar a category names
BaselineScalarOf(category) ==
    LET b == Unwrap(previous_serials)
    IN CASE category = <<"s","y","s","t","e","m","_","s","e","r","i","a","l">> -> b.system_serial
         [] category = <<"s","y","s","t","e","m","_","u","u","i","d">> -> b.system_uuid
         [] category = <<"s","y","s","t","e","m","_","s","k","u">> -> b.system_sku
         [] category = <<"b","a","s","e","b","o","a","r","d","_","s","e","r","i","a","l">> -> b.baseboard_serial
         [] category = <<"p","r","o","c","e","s","s","o","r","_","s","e","r","i","a","l">> -> b.processor_serial
         [] category = <<"c","h","a","s","s","i","s","_","s","e","r","i","a","l">> -> b.chassis_serial

\* the baseline list a category names
BaselineListOf(category) ==
    LET b == Unwrap(previous_serials)
    IN CASE category = <<"d","i","s","k">> -> b.disk_serials
         [] category = <<"n","e","t","w","o","r","k">> -> b.network_macs
         [] category = <<"m","o","n","i","t","o","r">> -> b.monitor_serials
         [] category = <<"g","p","u">> -> b.gpu_guids

\* C1: compare, for each of the six scalar categories: New when current is
\* empty or "N/A"; else New when the baseline scalar of the category is
\* absent; else Unchanged when it equals current; else Changed{old} with old
\* the baseline value of that same category.
C1_CompareScalar ==
    (cmp.op = "compare" /\ cmp.category \in ScalarKeys) =>
        LET base == BaselineScalarOf(cmp.category)
        IN /\ (cmp.current = <<>> \/ cmp.current = <<"N","/","A">>) => cmp.status = "New"
           /\ (cmp.current # <<>> /\ cmp.current # <<"N","/","A">> /\ ~base.some)
                 => cmp.status = "New"
           /\ (cmp.current # <<>> /\ cmp.current # <<"N","/","A">> /\ base.some
                 /\ Unwrap(base) = cmp.current) => cmp.status = "Unchanged"
           /\ (cmp.current # <<>> /\ cmp.current # <<"N","/","A">> /\ base.some
                 /\ Unwrap(base) # cmp.current)
                 => (cmp.status = "Changed" /\ cmp.old = Unwrap(base))

C1_Witness ==
    /\ cmp.op = "compare"
    /\ cmp.category = <<"c","h","a","s","s","i","s","_","s","e","r","i","a","l">>
    /\ cmp.current = <<"A","B","C","1","2","3">>
    /\ Unwrap(previous_serials).chassis_serial = Some(<<"O","L","D","9","9","9">>)
    /\ Unwrap(previous_serials).baseboard_serial = Some(<<"A","B","C","1","2","3">>)
    /\ cmp.status = "Changed"
    /\ cmp.old = <<"O","L","D","9","9","9">>

\* C2: compare_list, for a list category and a current value that is neither
\* empty nor "N/A": New when the baseline list is empty, Unchanged when
\* current occurs anywhere in it, else Changed{old: "(different from
\* previous)"}; the result is a function of the set of the list's values.
C2_CompareListBySet ==
    (cmp.op = "compare_list" /\ cmp.category \in ListKeys
        /\ cmp.current # <<>> /\ cmp.current # <<"N","/","A">>) =>
        LET values == Range(BaselineListOf(cmp.category))
        IN <<cmp.status, cmp.old>> =
              IF values = {} THEN <<"New", <<>>>>
              ELSE IF cmp.current \in values THEN <<"Unchanged", <<>>>>
              ELSE <<"Changed", <<"(","d","i","f","f","e","r","e","n","t"," ","f","r","o","m"," ","p","r","e","v","i","o","u","s",")">>>>

C2_Witness ==
    /\ cmp.op = "compare_list"
    /\ cmp.category = <<"d","i","s","k">>
    /\ cmp.current = <<"S","N","-","4","2">>
    /\ Unwrap(previous_serials).disk_serials = <<<<"S","N","-","1">>, <<"S","N","-","4","2">>>>
    /\ cmp.status = "Unchanged"

-----------------------------------------------------------------------------
(* What the platform inventory can answer *)

BaseInventory ==
    [product |-> [identifying_number |-> Some(<<"P","F","3","A","B","C","D","E">>),
                  uuid |-> Some(<<"4","C","4","C","4","5","4","4","-","0","0","4","2">>),
                  sku_number |-> Some(<<"S","K","U","-","P">>)],
     system |-> [system_sku_number |-> Some(<<"S","K","U","-","S">>)],
     board |-> [serial_number |-> Some(<<"B","B","-","0","1">>), tag |-> Some(<<"T","A","G","-","B">>)],
     proc |-> [serial_number |-> Some(<<"C","P","U","-","9">>), part_number |-> Some(<<"P","N","-","7">>)],
     enclosure |-> [serial_number |-> Some(<<"C","H","-","5","5">>),
                    smbios_asset_tag |-> Some(<<"T","A","G","-","C">>),
                    sku |-> Some(<<"S","K","U","-","C">>)],
     drives |-> <<>>,
     msft_disks |-> <<>>,
     adapters |-> <<>>,
     wmi_ids |-> <<>>,
     desktop_monitors |-> <<>>,
     controllers |-> <<>>]

\* no row from any query: WMI unavailable, or not a Windows build
EmptyInventory ==
    [product |-> [identifying_number |-> None, uuid |-> None, sku_number |-> None],
     system |-> [system_sku_number |-> None],
     board |-> [serial_number |-> None, tag |-> None],
     proc |-> [serial_number |-> None, part_number |-> None],
     enclosure |-> [serial_number |-> None, smbios_asset_tag |-> None, sku |-> None],
     drives |-> <<>>,
     msft_disks |-> <<>>,
     adapters |-> <<>>,
     wmi_ids |-> <<>>,
     desktop_monitors |-> <<>>,
     controllers |-> <<>>]

RawStrings ==
    {None, Some(<<"T","o"," ","B","e"," ","F","i","l","l","e","d"," ","B","y"," ","O",".","E",".","M",".">>), Some(<<" "," ">>), Some(<<"N","/","A">>), Some(<<"S","N"," ","7","7"," ">>),
     Some(<<"A",":","1">>), Some(<<"D","e","f","a","u","l","t"," ","s","t","r","i","n","g">>), Some(<<"Z","Z","9">>)}

ScalarFields ==
    {<<"product", "identifying_number">>, <<"product", "uuid">>,
     <<"product", "sku_number">>, <<"system", "system_sku_number">>,
     <<"board", "serial_number">>, <<"board", "tag">>,
     <<"proc", "serial_number">>, <<"proc", "part_number">>,
     <<"enclosure", "serial_number">>, <<"enclosure", "smbios_asset_tag">>,
     <<"enclosure", "sku">>}

\* the base answers with one field replaced
ScalarInventories ==
    {BaseInventory, EmptyInventory}
    \cup {[BaseInventory EXCEPT ![gf[1]][gf[2]] = x] : gf \in ScalarFields, x \in RawStrings}

\* answers with rows in the four lists
ListInventoryA ==
    [BaseInventory EXCEPT
        !.drives = <<[model |-> Some(<<"S","a","m","s","u","n","g"," ","S","S","D"," ","9","7","0">>), serial_number |-> Some(<<" ","S","4","E","V","-","0","1"," "," ">>)],
                     [model |-> None, serial_number |-> None]>>,
        !.msft_disks = <<[unique_id |-> Some(<<"5","0","0","2","5","3","8","E">>)]>>,
        !.adapters = <<[name |-> Some(<<"I","n","t","e","l","(","R",")"," ","E","t","h","e","r","n","e","t">>),
                        mac_address |-> Some(<<"A","A",":","B","B",":","C","C",":","0","0",":","1","1",":","2","2">>)],
                       [name |-> Some(<<"B","l","u","e","t","o","o","t","h">>), mac_address |-> None],
                       [name |-> None, mac_address |-> Some(<<"A","A",":","B","B",":","C","C",":","0","0",":","1","1",":","3","3">>)]>>,
        !.wmi_ids = <<[user_friendly_name |-> Some(<<"D","E","L","L"," ","U","2","7","2","0","Q">>),
                       product_code_id |-> Some(<<"A","0","F","1">>),
                       serial_number_id |-> Some(<<"7","A","B","C","1","2","3">>)],
                      [user_friendly_name |-> None,
                       product_code_id |-> None,
                       serial_number_id |-> None]>>,
        !.controllers = <<[name |-> Some(<<"N","V","I","D","I","A"," ","G","e","F","o","r","c","e"," ","R","T","X"," ","3","0","8","0">>),
                           video_processor |-> None,
                           pnp_device_id |-> Some(<<"P","C","I","\\","V","E","N","_","1","0","D","E","&","D","E","V","_","2","2","0","6">>),
                           adapter_compatibility |-> Some(<<"N","V","I","D","I","A">>),
                           class_guid |-> Some(<<"{","4","d","3","6","e","9","6","8","-","e","3","2","5","}">>)],
                          [name |-> None,
                           video_processor |-> Some(<<"A","M","D"," ","R","a","d","e","o","n"," ","G","r","a","p","h","i","c","s">>),
                           pnp_device_id |-> None,
                           adapter_compatibility |-> None,
                           class_guid |-> None]>>]

ListInventoryB ==
    [BaseInventory EXCEPT
        !.drives = <<[model |-> Some(<<"W","D","C"," ","W","D","1","0">>), serial_number |-> Some(<<"W","D","-","W","X","1">>)]>>,
        !.adapters = <<[name |-> Some(<<"R","e","a","l","t","e","k"," ","P","C","I","e"," ","G","b","E">>),
                        mac_address |-> Some(<<"0","0",":","E","0",":","4","C",":","6","8",":","0","0",":","0","1">>)]>>,
        !.desktop_monitors = <<[monitor_type |-> Some(<<"G","e","n","e","r","i","c"," ","P","n","P"," ","M","o","n","i","t","o","r">>),
                                name |-> None,
                                pnp_device_id |-> Some(<<"D","I","S","P","L","A","Y","\\","D","E","L","4","0","4","D","\\","5","&","1","2","3","4","&","0","&","U","I","D","2","5","6">>)],
                               [monitor_type |-> None,
                                name |-> None,
                                pnp_device_id |-> None]>>,
        !.controllers = <<[name |-> Some(<<"I","n","t","e","l","(","R",")"," ","U","H","D"," ","G","r","a","p","h","i","c","s">>),
                           video_processor |-> None,
                           pnp_device_id |-> Some(<<"P","C","I","\\","V","E","N","_","8","0","8","6","&","D","E","V","_","9","B","C","4">>),
                           adapter_compatibility |-> None,
                           class_guid |-> None]>>]

\* an adapter whose name holds a colon
ListInventoryC ==
    [BaseInventory EXCEPT
        !.adapters = <<[name |-> Some(<<"v","E","t","h","e","r","n","e","t",":"," ","W","S","L">>),
                        mac_address |-> Some(<<"0","0",":","1","5",":","5","D",":","0","0",":","1","1",":","2","2">>)]>>]

Inventories == ScalarInventories \cup {ListInventoryA, ListInventoryB, ListInventoryC}

\* Local::now() formatted "%Y-%m-%d %H:%M:%S"
Timestamps == {<<"2","0","2","6","-","0","1","-","0","1"," ","0","9",":","0","0",":","0","0">>, <<"2","0","2","6","-","0","1","-","0","1"," ","0","9",":","0","0",":","0","1">>}

-----------------------------------------------------------------------------
(* Serializing a snapshot and parsing the text back *)

InitRoundTrip ==
    /\ pc = "start"
    /\ \/ platform = "windows" /\ raw \in Inventories
       \/ platform = "other" /\ raw = EmptyInventory
    /\ snapshot = collect(platform, raw)
    /\ file = None
    /\ previous_serials = None
    /\ current_tab = 0
    /\ scroll_offset = 0
    /\ status_message = None
    /\ registry = NoRegistry
    /\ locked_info = DefaultLockedInfo
    /\ spoofing_advice = <<>>
    /\ cmp = NoCmp
    /\ terminal = TerminalOff

\* export_serials returning Ok at the time now
ExportSerials(now) ==
    /\ pc = "start"
    /\ file' = Some(export_content(snapshot, now))
    /\ pc' = "exported"
    /\ UNCHANGED <<terminal, lockVars, raw, snapshot, previous_serials, current_tab,
                   scroll_offset, status_message, cmp>>

\* PreviousSerials::parse of the file's content
Parse ==
    /\ pc = "exported"
    /\ previous_serials' = Some(parse(Unwrap(file)))
    /\ pc' = "parsed"
    /\ UNCHANGED <<terminal, lockVars, raw, snapshot, file, current_tab, scroll_offset,
                   status_message, cmp>>

NextRoundTrip == (\E now \in Timestamps : ExportSerials(now)) \/ Parse

SpecRoundTrip == InitRoundTrip /\ [][NextRoundTrip]_vars

\* the live value of a scalar category
LiveScalar(category) ==
    CASE category = <<"s","y","s","t","e","m","_","s","e","r","i","a","l">> -> snapshot.system_info.serial_number
      [] category = <<"s","y","s","t","e","m","_","u","u","i","d">> -> snapshot.system_info.uuid
      [] category = <<"s","y","s","t","e","m","_","s","k","u">> -> snapshot.system_info.sku
      [] category = <<"b","a","s","e","b","o","a","r","d","_","s","e","r","i","a","l">> -> snapshot.baseboard_info.serial_number
      [] category = <<"p","r","o","c","e","s","s","o","r","_","s","e","r","i","a","l">> -> snapshot.processor_info.serial_number
      [] category = <<"c","h","a","s","s","i","s","_","s","e","r","i","a","l">> -> snapshot.chassis_info.serial_number

ListsEmpty ==
    /\ snapshot.disk_info = <<>>
    /\ snapshot.network_info = <<>>
    /\ snapshot.monitor_info = <<>>
    /\ snapshot.gpu_info = <<>>

\* C3: for a snapshot whose lists are empty, parsing its export gives a
\* baseline whose six scalars are Some(v), v the snapshot's value, when that
\* value is not "N/A", and None when it is; the four baseline lists are empty.
C3_ScalarRoundTrip ==
    (pc = "parsed" /\ ListsEmpty) =>
        LET b == Unwrap(previous_serials)
        IN /\ \A category \in ScalarKeys :
                 BaselineScalarOf(category) =
                    IF LiveScalar(category) = <<"N","/","A">> THEN None
                    ELSE Some(LiveScalar(category))
           /\ b.disk_serials = <<>>
           /\ b.network_macs = <<>>
           /\ b.monitor_serials = <<>>
           /\ b.gpu_guids = <<>>


\* C3, the case that fails: a scalar the collector stored with white space
\* at an end has been exported and parsed back
C3_Witness ==
    /\ pc = "parsed"
    /\ ListsEmpty
    /\ \E category \in ScalarKeys :
          /\ LiveScalar(category) # Sentinel
          /\ Trim(LiveScalar(category)) # LiveScalar(category)
          /\ BaselineScalarOf(category) = Some(Trim(LiveScalar(category)))

-----------------------------------------------------------------------------
(* The session: App and the key loop of run_app *)

\* Tab::all().len()
TabCount == 9

\* the model stops scrolling down at this offset
MaxScroll == 2

\* App::set_status
set_status(message) == Some(message)

\* the io::Error of a failed File::create or write_all, as Display shows it
IoCauses == {<<"P","e","r","m","i","s","s","i","o","n"," ","d","e","n","i","e","d"," ","(","o","s"," ","e","r","r","o","r"," ","1","3",")">>, <<"N","o"," ","s","p","a","c","e"," ","l","e","f","t"," ","o","n"," ","d","e","v","i","c","e"," ","(","o","s"," ","e","r","r","o","r"," ","2","8",")">>}

\* App::reload_previous_serials: the baseline is read again from
\* serials_export.txt and parsed; no readable file, no baseline
reload_previous_serials(f) == IF f.some THEN Some(parse(Unwrap(f))) ELSE None

\* the answers of the machines a session is run on
SessionInventories ==
    {BaseInventory,
     [BaseInventory EXCEPT !.product.uuid = Some(<<"S","N"," ","7","7"," ">>)],
     [BaseInventory EXCEPT !.enclosure.serial_number = Some(<<"D","e","f","a","u","l","t"," ","s","t","r","i","n","g">>)],
     ListInventoryA}

\* serials_export.txt as an earlier session left it
EarlierFiles ==
    {None,
     Some(export_content(collect("windows", ListInventoryB), <<"2","0","2","5","-","1","2","-","3","1"," ","2","3",":","5","9",":","5","9">>))}

\* the lengths at which a failing write_all can leave the file
PartialLengths(content) == {0, Len(content) \div 2}

\* App::new, with the baseline loaded from the file an earlier session left
Init ==
    /\ pc = "running"
    /\ \/ platform = "windows" /\ raw \in SessionInventories
       \/ platform = "other" /\ raw = EmptyInventory
    /\ snapshot = collect(platform, raw)
    /\ file \in EarlierFiles
    /\ previous_serials = reload_previous_serials(file)
    /\ current_tab = 0
    /\ scroll_offset = 0
    /\ status_message = None
    /\ registry = NoRegistry
    /\ locked_info = detect(platform, registry)
    /\ spoofing_advice = generate_spoofing_advice(locked_info)
    /\ cmp = NoCmp
    /\ terminal = TerminalOn

\* KeyCode::Down | 'j': App::next_tab
NextTabMutNoWrap ==
    /\ pc = "running"
    /\ current_tab' = IF current_tab < TabCount THEN current_tab + 1 ELSE current_tab
    /\ scroll_offset' = 0
    /\ UNCHANGED <<terminal, pc, lockVars, raw, snapshot, file, previous_serials,
                   status_message, cmp>>
NextTab ==
    /\ pc = "running"
    /\ current_tab' = (current_tab + 1) % TabCount
    /\ scroll_offset' = 0
    /\ UNCHANGED <<terminal, pc, lockVars, raw, snapshot, file, previous_serials,
                   status_message, cmp>>

\* KeyCode::Up | 'k': App::previous_tab
PreviousTab ==
    /\ pc = "running"
    /\ current_tab' = IF current_tab = 0 THEN TabCount - 1 ELSE current_tab - 1
    /\ scroll_offset' = 0
    /\ UNCHANGED <<terminal, pc, lockVars, raw, snapshot, file, previous_serials,
                   status_message, cmp>>

\* KeyCode::Left | 'h': App::scroll_up
ScrollUp ==
    /\ pc = "running"
    /\ scroll_offset' = IF scroll_offset > 0 THEN scroll_offset - 1 ELSE scroll_offset
    /\ UNCHANGED <<terminal, pc, lockVars, raw, snapshot, file, previous_serials,
                   current_tab, status_message, cmp>>

\* the largest u16
U16Max == 65535

\* KeyCode::Right | 'l': App::scroll_down. scroll_offset += 1 on a u16: at
\* 65535 a build with overflow checks panics, a build without them wraps to 0
ScrollDown ==
    /\ pc = "running"
    /\ scroll_offset < MaxScroll \/ scroll_offset >= U16Max - MaxScroll
    /\ \/ /\ scroll_offset < U16Max
          /\ scroll_offset' = scroll_offset + 1
          /\ pc' = pc
       \/ /\ scroll_offset = U16Max
          /\ scroll_offset' = (scroll_offset + 1) % (U16Max + 1)
          /\ pc' = pc
       \/ /\ scroll_offset = U16Max
          /\ scroll_offset' = scroll_offset
          /\ pc' = "panicked"
    /\ UNCHANGED <<terminal, lockVars, raw, snapshot, file, previous_serials,
                   current_tab, status_message, cmp>>

\* KeyCode::Tab, export_serials returns Ok(filename): the file is created
\* anew and written, the status is set and the baseline is reloaded
ExportOkMutAppend(now) ==
    /\ pc = "running"
    /\ file' = Some((IF file.some THEN Unwrap(file) ELSE <<>>)
                        \o export_content(snapshot, now))
    /\ status_message' = set_status(<<"E","x","p","o","r","t","e","d"," ","t","o"," ">> \o ExportFilename)
    /\ previous_serials' = reload_previous_serials(file')
    /\ UNCHANGED <<terminal, pc, lockVars, raw, snapshot, current_tab, scroll_offset, cmp>>
ExportOk(now) ==
    /\ pc = "running"
    /\ file' = Some(export_content(snapshot, now))
    /\ status_message' = set_status(<<"E","x","p","o","r","t","e","d"," ","t","o"," ">> \o ExportFilename)
    /\ previous_serials' = reload_previous_serials(file')
    /\ UNCHANGED <<terminal, pc, lockVars, raw, snapshot, current_tab, scroll_offset, cmp>>

\* KeyCode::Tab, File::create returns Err: the file is left as it was
ExportCreateFails(cause) ==
    /\ pc = "running"
    /\ status_message' = set_status(<<"E","x","p","o","r","t"," ","f","a","i","l","e","d",":"," ">> \o cause)
    /\ UNCHANGED <<terminal, pc, lockVars, raw, snapshot, file, previous_serials,
                   current_tab, scroll_offset, cmp>>

\* KeyCode::Tab, write_all returns Err: the file was truncated by
\* File::create and holds what was written before the failure
ExportWriteFailsMutReload(now, cause) ==
    /\ pc = "running"
    /\ \E k \in PartialLengths(export_content(snapshot, now)) :
          file' = Some(SubSeq(export_content(snapshot, now), 1, k))
    /\ status_message' = set_status(<<"E","x","p","o","r","t"," ","f","a","i","l","e","d",":"," ">> \o cause)
    /\ previous_serials' = reload_previous_serials(file')
    /\ UNCHANGED <<terminal, pc, lockVars, raw, snapshot, current_tab, scroll_offset, cmp>>
ExportWriteFails(now, cause) ==
    /\ pc = "running"
    /\ \E k \in PartialLengths(export_content(snapshot, now)) :
          file' = Some(SubSeq(export_content(snapshot, now), 1, k))
    /\ status_message' = set_status(<<"E","x","p","o","r","t"," ","f","a","i","l","e","d",":"," ">> \o cause)
    /\ UNCHANGED <<terminal, pc, lockVars, raw, snapshot, previous_serials,
                   current_tab, scroll_offset, cmp>>

\* KeyCode::Char('q') | KeyCode::Esc: run_app returns Ok(())
Quit ==
    /\ pc = "running"
    /\ pc' = "quit"
    /\ UNCHANGED <<terminal, lockVars, appVars, cmp>>

Next ==
    \/ NextTab
    \/ PreviousTab
    \/ ScrollUp
    \/ ScrollDown
    \/ \E now \in Timestamps : ExportOk(now)
    \/ \E cause \in IoCauses : ExportCreateFails(cause)
    \/ \E now \in Timestamps, cause \in IoCauses : ExportWriteFails(now, cause)
    \/ Quit

Spec == Init /\ [][Next]_vars

\* the status the Ok arm of the Tab key sets
ExportedStatus == Some(<<"E","x","p","o","r","t","e","d"," ","t","o"," ","s","e","r","i","a","l","s","_","e","x","p","o","r","t",".","t","x","t">>)

\* C4: once an export has returned Ok, and until another export is tried,
\* comparing each live scalar with the reloaded baseline gives Unchanged when
\* the live value is not "N/A" and New when it is; never Changed.
C4_NoChangeAfterExport ==
    status_message = ExportedStatus =>
        /\ previous_serials.some
        /\ \A category \in ScalarKeys :
              compare(Unwrap(previous_serials), category, LiveScalar(category)).status
                 = IF LiveScalar(category) = Sentinel THEN "New" ELSE "Unchanged"

\* C4, the case that fails: right after a successful export a live scalar
\* compares as Changed, the old value being the live one without its spaces
C4_Witness ==
    /\ status_message = ExportedStatus
    /\ previous_serials.some
    /\ \E category \in ScalarKeys :
          compare(Unwrap(previous_serials), category, LiveScalar(category))
             = Changed(Trim(LiveScalar(category)))

-----------------------------------------------------------------------------
(* PreviousSerials::parse on any text *)

\* the longest text given to parse, in lines
MaxParseLines == 3

\* lines a file can hold: headers of known and unknown sections, recorded and
\* skipped key-value lines, lines without a colon
ParseLinePool ==
    {<<"=","=","="," ","S","Y","S","T","E","M"," ","=","=","=">>, <<"=","=","="," ","D","I","S","K","S"," ","=","=","=">>, <<" "," ","=","=","=","N","E","T","W","O","R","K","=","=","="," "," ">>, <<"=","=","="," ","B","O","G","U","S"," ","=","=","=">>,
     <<"=","=","=">>, <<"S","e","r","i","a","l"," ","N","u","m","b","e","r",":"," ","A","1">>, <<"S","e","r","i","a","l"," ","N","u","m","b","e","r",":"," ","N","/","A">>, <<"S","e","r","i","a","l"," ","N","u","m","b","e","r",":"," "," "," ">>,
     <<"U","U","I","D",":"," ","U",":","2"," ">>, <<"n","o"," ","c","o","l","o","n"," ","h","e","r","e">>, <<"F","o","o",":"," ","b","a","r">>, <<" "," ","S","e","r","i","a","l"," ","(","S","t","o","r","a","g","e"," ","Q","u","e","r","y",")",":"," ","D","-","1">>}

\* the line ends of a text file
LineEnds == {<<"\n">>, <<"\r","\n">>}

\* the texts of at most MaxParseLines lines of the pool, every line ended
ParseInputs ==
    {Concat([i \in 1..Len(ls) |-> ls[i] \o eol]) :
        ls \in UNION {[1..n -> ParseLinePool] : n \in 0..MaxParseLines},
        eol \in LineEnds}

InitParse ==
    /\ pc = "exported"
    /\ file \in {Some(content) : content \in ParseInputs}
    /\ previous_serials = None
    /\ IdleLock
    /\ raw = <<>>
    /\ snapshot = <<>>
    /\ current_tab = 0
    /\ scroll_offset = 0
    /\ status_message = None
    /\ cmp = NoCmp
    /\ terminal = TerminalOff

SpecParse == InitParse /\ [][Parse]_vars

\* let mut serials = Self::default(); let mut current_section = "";
ParseStart == [serials |-> DefaultPreviousSerials, current_section |-> <<>>]

\* the state of the loop of parse after the first k lines of the file
ParseStateAfter(k) == ParseLines(Lines(Unwrap(file)), 1, k, ParseStart)

\* the trimmed line k of the file
FileLine(k) == Trim(Lines(Unwrap(file))[k])

FileLineCount == Len(Lines(Unwrap(file)))

IsHeaderLine(line) == StartsWith(line, <<"=","=","=">>) /\ EndsWith(line, <<"=","=","=">>)

\* the key and the value of a line "key: value", both trimmed
LineKey(line) == Trim(Unwrap(SplitOnce(line, ":"))[1])
LineValue(line) == Trim(Unwrap(SplitOnce(line, ":"))[2])

\* the (section, key) pairs the export format gives a meaning to
Recognized(section, key) ==
    \/ section = <<"S","Y","S","T","E","M">> /\ key \in {<<"S","e","r","i","a","l"," ","N","u","m","b","e","r">>, <<"U","U","I","D">>, <<"S","K","U">>}
    \/ section \in {<<"B","A","S","E","B","O","A","R","D">>, <<"P","R","O","C","E","S","S","O","R">>, <<"C","H","A","S","S","I","S">>, <<"M","O","N","I","T","O","R","S">>}
          /\ key = <<"S","e","r","i","a","l"," ","N","u","m","b","e","r">>
    \/ section = <<"D","I","S","K","S">> /\ Contains(key, <<"S","e","r","i","a","l">>)
    \/ section = <<"N","E","T","W","O","R","K">>
    \/ section = <<"G","P","U">> /\ Contains(key, <<"G","U","I","D">>)

ScalarFieldNames ==
    {"system_serial", "system_uuid", "system_sku", "baseboard_serial",
     "processor_serial", "chassis_serial"}
ListFieldNames == {"disk_serials", "network_macs", "monitor_serials", "gpu_guids"}

\* C11: parse returns a baseline for every text; a line without a colon, a
\* line before any section header, a line of an unrecognized section and a
\* line with an unrecognized key each leave the baseline built so far
\* unchanged.
C11_ParseTotal ==
    pc = "parsed" =>
        /\ previous_serials.some
        /\ DOMAIN Unwrap(previous_serials) = DOMAIN DefaultPreviousSerials
        /\ \A f \in ScalarFieldNames : Unwrap(previous_serials)[f].some \in BOOLEAN
        /\ \A f \in ListFieldNames : Len(Unwrap(previous_serials)[f]) \in Nat
        /\ Unwrap(previous_serials) = ParseStateAfter(FileLineCount).serials
        /\ \A k \in 1..FileLineCount :
              LET before == ParseStateAfter(k - 1)
                  line == FileLine(k)
              IN (\/ ~SplitOnce(line, ":").some
                  \/ before.current_section = <<>>
                  \/ ~Recognized(before.current_section, LineKey(line)))
                 => ParseStateAfter(k).serials = before.serials

C11_Witness ==
    /\ pc = "parsed"
    /\ Lines(Unwrap(file)) = <<<<"=","=","="," ","S","Y","S","T","E","M"," ","=","=","=">>, <<"S","e","r","i","a","l"," ","N","u","m","b","e","r",":"," ","A","1">>, <<"F","o","o",":"," ","b","a","r">>>>
    /\ Unwrap(previous_serials) =
          [DefaultPreviousSerials EXCEPT !.system_serial = Some(<<"A","1">>)]

\* a value parse may record: not empty, not "N/A", trimmed
Recordable(v) == v # <<>> /\ v # <<"N","/","A">> /\ Trim(v) = v

\* C12: no field of the baseline parse returns holds an empty string or
\* "N/A": every scalar present and every element of the four lists is a
\* non-empty trimmed value other than "N/A"; a line whose value is empty or
\* "N/A" changes nothing, so it does not overwrite a scalar recorded before.
C12_NoEmptyNoSentinel ==
    pc = "parsed" =>
        LET b == Unwrap(previous_serials)
        IN /\ \A f \in ScalarFieldNames : b[f].some => Recordable(Unwrap(b[f]))
           /\ \A f \in ListFieldNames :
                 \A i \in 1..Len(b[f]) : Recordable(b[f][i])
           /\ \A k \in 1..FileLineCount :
                 LET line == FileLine(k)
                 IN (/\ ~IsHeaderLine(line)
                     /\ SplitOnce(line, ":").some
                     /\ LineValue(line) \in {<<>>, <<"N","/","A">>})
                    => ParseStateAfter(k) = ParseStateAfter(k - 1)

C12_Witness ==
    /\ pc = "parsed"
    /\ Lines(Unwrap(file)) =
          <<<<"=","=","="," ","S","Y","S","T","E","M"," ","=","=","=">>, <<"S","e","r","i","a","l"," ","N","u","m","b","e","r",":"," ","A","1">>, <<"S","e","r","i","a","l"," ","N","u","m","b","e","r",":"," ","N","/","A">>>>
    /\ Unwrap(previous_serials).system_serial = Some(<<"A","1">>)

-----------------------------------------------------------------------------
(* The collectors on the answers of the platform *)

\* raw strings vendors leave in SMBIOS fields, and a real serial
PlaceholderProbes ==
    {<<>>, <<" "," "," ">>, <<"T","o"," ","B","e"," ","F","i","l","l","e","d"," ","B","y"," ","O",".","E",".","M",".">>, <<"T","O"," ","B","E"," ","F","I","L","L","E","D">>, <<"O",".","E",".","M",".">>, <<"O","E","M">>,
     <<"O","e","m"," ","B","o","a","r","d">>, <<"D","e","f","a","u","l","t"," ","s","t","r","i","n","g">>, <<"D","E","F","A","U","L","T"," ","S","T","R","I","N","G">>, <<"N","o","t"," ","S","p","e","c","i","f","i","e","d">>, <<"N","o","n","e">>,
     <<"U","n","k","n","o","w","n">>, <<"U","N","K","N","O","W","N"," ">>, <<"S","y","s","t","e","m"," ","S","e","r","i","a","l"," ","N","u","m","b","e","r">>, <<"S","y","s","t","e","m"," ","P","r","o","d","u","c","t"," ","N","a","m","e">>,
     <<"B","a","s","e"," ","B","o","a","r","d"," ","S","e","r","i","a","l"," ","N","u","m","b","e","r">>, <<"C","h","a","s","s","i","s"," ","S","e","r","i","a","l"," ","N","u","m","b","e","r">>, <<"n","/","a">>, <<"P","F","3","A","B","C","D","E">>}

\* the same raw string as the serial of the system, the board and the chassis
ProbeInventory(x) ==
    [BaseInventory EXCEPT !.product.identifying_number = Some(x),
                          !.board.serial_number = Some(x),
                          !.enclosure.serial_number = Some(x)]

CollectInventories == Inventories \cup {ProbeInventory(x) : x \in PlaceholderProbes}

InitCollect ==
    /\ pc = "start"
    /\ \/ platform = "windows" /\ raw \in CollectInventories
       \/ platform = "other" /\ raw = EmptyInventory
    /\ snapshot = <<>>
    /\ file = None
    /\ previous_serials = None
    /\ current_tab = 0
    /\ scroll_offset = 0
    /\ status_message = None
    /\ registry = NoRegistry
    /\ locked_info = DefaultLockedInfo
    /\ spoofing_advice = <<>>
    /\ cmp = NoCmp
    /\ terminal = TerminalOff

\* the collect calls of App::new
Collect ==
    /\ pc = "start"
    /\ snapshot' = collect(platform, raw)
    /\ pc' = "collected"
    /\ UNCHANGED <<terminal, lockVars, raw, file, previous_serials, current_tab,
                   scroll_offset, status_message, cmp>>

SpecCollect == InitCollect /\ [][Collect]_vars

\* is_placeholder as the normalizer is described: after trimming, in any
\* letter case, empty, or holding a manufacturer filler, or a known literal
PlaceholderText(s) ==
    LET lower == ToLowercase(Trim(s))
    IN \/ lower = <<>>
       \/ Contains(lower, <<"t","o"," ","b","e"," ","f","i","l","l","e","d">>)
       \/ Contains(lower, <<"o",".","e",".","m">>)
       \/ Contains(lower, <<"o","e","m">>)
       \/ lower \in {<<"d","e","f","a","u","l","t"," ","s","t","r","i","n","g">>, <<"n","o","t"," ","s","p","e","c","i","f","i","e","d">>, <<"n","o","n","e">>, <<"u","n","k","n","o","w","n">>,
                     <<"s","y","s","t","e","m"," ","s","e","r","i","a","l"," ","n","u","m","b","e","r">>, <<"s","y","s","t","e","m"," ","p","r","o","d","u","c","t"," ","n","a","m","e">>,
                     <<"b","a","s","e"," ","b","o","a","r","d"," ","s","e","r","i","a","l"," ","n","u","m","b","e","r">>, <<"c","h","a","s","s","i","s"," ","s","e","r","i","a","l"," ","n","u","m","b","e","r">>}

\* other texts that stand for 'not available'
NotAvailableMarker(s) ==
    \/ s = <<"(","N","o","t"," ","E","x","p","o","s","e","d",")">>
    \/ (StartsWith(s, Sentinel) /\ s # Sentinel)

\* the six scalars and every string field of every list entry
SnapshotStrings ==
    {snapshot.system_info.serial_number, snapshot.system_info.uuid,
     snapshot.system_info.sku, snapshot.baseboard_info.serial_number,
     snapshot.processor_info.serial_number, snapshot.chassis_info.serial_number}
    \cup UNION {{d.model, d.storage_query, d.wwn} : d \in Range(snapshot.disk_info)}
    \cup UNION {{n.name, n.mac_address} : n \in Range(snapshot.network_info)}
    \cup UNION {{m.display_name, m.model, m.serial_number, m.id_serial} :
                   m \in Range(snapshot.monitor_info)}
    \cup UNION {{g.name, g.pci_device, g.guid} : g \in Range(snapshot.gpu_info)}

\* C13: in a collected snapshot every scalar and every string field of every
\* disk, interface, monitor and GPU entry is "N/A" or a value that is no
\* placeholder; none is empty, a vendor placeholder or another marker for
\* 'not available'.
C13_SentinelOrValue ==
    pc = "collected" =>
        \A v \in SnapshotStrings :
            v = Sentinel \/ (~PlaceholderText(v) /\ ~NotAvailableMarker(v))

\* C13, the case that fails: the processor reports no serial number and the
\* snapshot holds "(Not Exposed)"
C13_Witness ==
    /\ pc = "collected"
    /\ platform = "windows"
    /\ ~raw.proc.serial_number.some
    /\ snapshot.processor_info.serial_number = <<"(","N","o","t"," ","E","x","p","o","s","e","d",")">>

\* the raw serials of the system, the board and the chassis
RawSerials ==
    {Unwrap(o) : o \in {p \in {raw.product.identifying_number,
                               raw.board.serial_number,
                               raw.enclosure.serial_number} : p.some}}

\* C14: the is_placeholder of the system, baseboard and chassis collectors is
\* true of every string that, trimmed and in any letter case, is empty, holds
\* "to be filled", "o.e.m" or "oem", or is one of the known literals; it is
\* false of "PF3ABCDE"; the three agree on every string.
C14_PlaceholderAgreement ==
    pc = "collected" =>
        \A s \in RawSerials :
            /\ PlaceholderText(s) =>
                  /\ system_is_placeholder(s)
                  /\ baseboard_is_placeholder(s)
                  /\ chassis_is_placeholder(s)
            /\ s = <<"P","F","3","A","B","C","D","E">> =>
                  /\ ~system_is_placeholder(s)
                  /\ ~baseboard_is_placeholder(s)
                  /\ ~chassis_is_placeholder(s)
            /\ system_is_placeholder(s) = baseboard_is_placeholder(s)
            /\ baseboard_is_placeholder(s) = chassis_is_placeholder(s)

\* C14, the case that fails: "OEM" is kept as the system's and the chassis'
\* serial and replaced by "N/A" as the board's
C14_Witness ==
    /\ pc = "collected"
    /\ raw = ProbeInventory(<<"O","E","M">>)
    /\ snapshot.system_info.serial_number = <<"O","E","M">>
    /\ snapshot.chassis_info.serial_number = <<"O","E","M">>
    /\ snapshot.baseboard_info.serial_number = Sentinel

-----------------------------------------------------------------------------
(* Exports of the session *)

\* the statuses the Err arm of the Tab key sets
FailedStatuses == {Some(<<"E","x","p","o","r","t"," ","f","a","i","l","e","d",":"," ">> \o cause) : cause \in IoCauses}

\* C15: a step in which the export fails sets the status "Export failed:
\* <cause>" and leaves the session running, the baseline not reloaded, and
\* the snapshot, the posture, the advice, the tab and the scroll offset as
\* they were.
C15_FailedExportKeepsState ==
    [][(/\ status_message' \in FailedStatuses
        /\ <<status_message, file>>' # <<status_message, file>>)
       => /\ pc' = "running"
          /\ previous_serials' = previous_serials
          /\ snapshot' = snapshot
          /\ locked_info' = locked_info
          /\ spoofing_advice' = spoofing_advice
          /\ current_tab' = current_tab
          /\ scroll_offset' = scroll_offset]_vars

\* a write has failed after an export had succeeded: the file is cut short,
\* the baseline is still the one of the complete export
C15_Witness ==
    /\ pc = "running"
    /\ status_message \in FailedStatuses
    /\ file.some
    /\ previous_serials.some
    /\ previous_serials # reload_previous_serials(file)
    /\ \E now \in Timestamps :
          previous_serials = Some(parse(export_content(snapshot, now)))

\* C16: the text serialized for a snapshot is the same at any two moments:
\* whenever an export has been written, the file holds the one text of the
\* snapshot, whatever the time of the export.
C16_SameSnapshotSameText ==
    status_message = ExportedStatus =>
        \A now \in Timestamps : file = Some(export_content(snapshot, now))

\* C16, the case that fails: the text written at one second is not the text
\* the same snapshot gives one second later
C16_Witness ==
    /\ status_message = ExportedStatus
    /\ file = Some(export_content(snapshot, <<"2","0","2","6","-","0","1","-","0","1"," ","0","9",":","0","0",":","0","0">>))
    /\ file # Some(export_content(snapshot, <<"2","0","2","6","-","0","1","-","0","1"," ","0","9",":","0","0",":","0","1">>))

IsPrefix(p, q) == Len(p) <= Len(q) /\ SubSeq(q, 1, Len(p)) = p

\* the values a baseline parsed from the export of the snapshot can hold
SnapshotValues == {Trim(v) : v \in SnapshotStrings}

-----------------------------------------------------------------------------
(* A read of the export file while it is being written *)

InitPartialRead ==
    /\ pc = "start"
    /\ \/ platform = "windows" /\ raw \in SessionInventories
       \/ platform = "other" /\ raw = EmptyInventory
    /\ snapshot = collect(platform, raw)
    /\ file = None
    /\ previous_serials = None
    /\ current_tab = 0
    /\ scroll_offset = 0
    /\ status_message = None
    /\ registry = NoRegistry
    /\ locked_info = DefaultLockedInfo
    /\ spoofing_advice = <<>>
    /\ cmp = NoCmp
    /\ terminal = TerminalOff

\* the text is read when write_all has written its first k characters, and
\* what was read is parsed; file stays the complete text being written
ReadPartial ==
    /\ pc = "exported"
    /\ \E k \in 0..Len(Unwrap(file)) :
           previous_serials' = Some(parse(SubSeq(Unwrap(file), 1, k)))
    /\ pc' = "read"
    /\ UNCHANGED <<terminal, lockVars, raw, snapshot, file, current_tab, scroll_offset,
                   status_message, cmp>>

NextPartialRead ==
    \/ \E now \in Timestamps : ExportSerials(now)
    \/ ReadPartial

SpecPartialRead == InitPartialRead /\ [][NextPartialRead]_vars

\* C18: the parse of a prefix of a complete export gives fewer fields, never
\* other ones: every scalar it holds is the scalar of the parse of the
\* complete text, and every list is a prefix of the list of the complete text.
C18_PrefixGivesFewerFields ==
    pc = "read" =>
        LET part == Unwrap(previous_serials)
            full == parse(Unwrap(file))
        IN /\ DOMAIN part = DOMAIN DefaultPreviousSerials
           /\ \A f \in ScalarFieldNames : part[f].some => part[f] = full[f]
           /\ \A f \in ListFieldNames : IsPrefix(part[f], full[f])

\* C18, the case that fails: the text is cut inside the system's serial and
\* the baseline holds the cut serial
C18_Witness ==
    /\ pc = "read"
    /\ snapshot.system_info.serial_number = <<"P","F","3","A","B","C","D","E">>
    /\ Unwrap(previous_serials).system_serial = Some(<<"P","F","3","A">>)
    /\ parse(Unwrap(file)).system_serial = Some(<<"P","F","3","A","B","C","D","E">>)

-----------------------------------------------------------------------------
(* The Secure Boot entry of the advice and the HVCI reason *)

EasySecureBootEntries ==
    {i \in DOMAIN spoofing_advice :
        /\ spoofing_advice[i].difficulty = "Easy"
        /\ spoofing_advice[i].method = "Disable in BIOS"}

\* C19: the advice holds the "Easy" Secure Boot entry (method "Disable in
\* BIOS") exactly when secure_boot_enforced is true, and never twice.
C19_SecureBootEntryIffEnforced ==
    pc = "advised" =>
        /\ (EasySecureBootEntries # {}) <=> locked_info.secure_boot_enforced
        /\ Cardinality(EasySecureBootEntries) <= 1
        /\ \A i \in EasySecureBootEntries :
               spoofing_advice[i].category = "Secure Boot"

C19_Witness ==
    /\ pc = "advised"
    /\ locked_info.secure_boot_enforced
    /\ ~locked_info.is_oem_system
    /\ ~locked_info.bios_write_protected
    /\ EasySecureBootEntries = {2}
    /\ Len(spoofing_advice) = 6

HvciReasons ==
    {i \in DOMAIN locked_info.lock_reasons :
        Contains(locked_info.lock_reasons[i], <<"H","V","C","I">>)}

VbsReasons ==
    {i \in DOMAIN locked_info.lock_reasons :
        locked_info.lock_reasons[i]
            = <<"V","B","S"," ","e","n","a","b","l","e","d"," ","-"," ","K","e","r","n","e","l","-","l","e","v","e","l"," ","p","r","o","t","e","c","t","i","o","n","s"," ","a","c","t","i","v","e">>}

\* C20: lock_reasons never holds two reasons that mention HVCI; with VBS and
\* HVCI both enabled bios_write_protected is true and lock_reasons ends with
\* the VBS reason followed by the one HVCI reason; with only one of the two
\* enabled bios_write_protected is true and only that reason is present.
C20_OneHvciReason ==
    Detected =>
        LET rs == locked_info.lock_reasons
            n == Len(rs)
        IN /\ Cardinality(HvciReasons) <= 1
           /\ (SigVbs /\ SigHvci) =>
                 /\ locked_info.bios_write_protected
                 /\ n >= 2
                 /\ VbsReasons = {n - 1}
                 /\ HvciReasons = {n}
                 /\ rs[n] = <<"H","V","C","I"," ","e","n","a","b","l","e","d"," ","-"," ","D","r","i","v","e","r"," ","s","i","g","n","i","n","g"," ","e","n","f","o","r","c","e","d">>
           /\ (SigVbs /\ ~SigHvci) =>
                 /\ locked_info.bios_write_protected
                 /\ VbsReasons = {n}
                 /\ HvciReasons = {}
           /\ (~SigVbs /\ SigHvci) =>
                 /\ locked_info.bios_write_protected
                 /\ HvciReasons = {n}
                 /\ VbsReasons = {}
           /\ (~SigVbs /\ ~SigHvci) =>
                 /\ ~locked_info.bios_write_protected
                 /\ HvciReasons = {} /\ VbsReasons = {}

C20_Witness ==
    /\ Detected
    /\ SigVbs /\ SigHvci /\ SigTpm /\ ~SigOem /\ ~SigSecureBoot
    /\ locked_info.bios_write_protected
    /\ Len(locked_info.lock_reasons) = 3
    /\ HvciReasons = {3}

-----------------------------------------------------------------------------
(* Normalization of the raw values *)

\* the scalars stored by the three collectors that filter placeholders
FilteredScalars ==
    {snapshot.system_info.serial_number, snapshot.system_info.uuid,
     snapshot.system_info.sku, snapshot.baseboard_info.serial_number,
     snapshot.chassis_info.serial_number}

\* C21: a scalar stored by the system, baseboard or chassis collector is
\* "N/A" or a trimmed value: a stored non-sentinel scalar has no white space
\* at its start or its end.
C21_StoredScalarIsTrimmed ==
    pc = "collected" =>
        \A v \in FilteredScalars : v # Sentinel => Trim(v) = v

\* C21, the case that fails: the platform returns "SN 77 " as the system's
\* serial and the snapshot holds it with its trailing blank
C21_Witness ==
    /\ pc = "collected"
    /\ raw.product.identifying_number = Some(<<"S","N"," ","7","7"," ">>)
    /\ snapshot.system_info.serial_number = <<"S","N"," ","7","7"," ">>

-----------------------------------------------------------------------------
(* The section state of parse *)

\* the text a header line puts between its runs of '='
HeaderText(line) == Trim(TrimMatches(line, "="))

\* the section of the closest header among the lines before line k
SectionBefore(k) ==
    LET hs == {j \in 1..(k - 1) : IsHeaderLine(FileLine(j))}
    IN IF hs = {} THEN <<>>
       ELSE HeaderText(FileLine(CHOOSE j \in hs : \A i \in hs : i <= j))

\* the file with its header lines dropped and every other line preceded by
\* a header of its section
TaggedText ==
    Concat([k \in 1..FileLineCount |->
               IF IsHeaderLine(FileLine(k)) THEN <<>>
               ELSE <<"=","=","=">> \o SectionBefore(k) \o <<"=","=","=","\n">> \o FileLine(k) \o <<"\n">>])

\* C22: a header line sets current_section to its text whatever the section
\* before and records nothing; every other line is handled under the section
\* of the closest preceding header; the baseline is that of the text in
\* which each key-value line is tagged with its section.
C22_SectionOfLastHeader ==
    pc = "parsed" =>
        /\ \A k \in 1..FileLineCount :
              LET before == ParseStateAfter(k - 1)
                  after == ParseStateAfter(k)
              IN /\ after.current_section = SectionBefore(k + 1)
                 /\ IsHeaderLine(FileLine(k)) =>
                       /\ after.current_section = HeaderText(FileLine(k))
                       /\ after.serials = before.serials
                 /\ ~IsHeaderLine(FileLine(k)) =>
                       after.serials =
                           ParseLine([serials |-> before.serials,
                                      current_section |-> SectionBefore(k)],
                                     FileLine(k)).serials
        /\ Unwrap(previous_serials) = parse(TaggedText)

C22_Witness ==
    /\ pc = "parsed"
    /\ Lines(Unwrap(file)) =
          <<<<"=","=","="," ","D","I","S","K","S"," ","=","=","=">>, <<"=","=","="," ","S","Y","S","T","E","M"," ","=","=","=">>, <<"S","e","r","i","a","l"," ","N","u","m","b","e","r",":"," ","A","1">>>>
    /\ Unwrap(previous_serials) =
          [DefaultPreviousSerials EXCEPT !.system_serial = Some(<<"A","1">>)]

-----------------------------------------------------------------------------
(* The dispatch of parse on the lines of the export format *)

\* the most key-value lines under one header
MaxKeyLines == 2

\* the headers export_serials writes, and one it does not
SectionHeaders ==
    {<<"=","=","="," ","S","Y","S","T","E","M"," ","=","=","=">>, <<"=","=","="," ","B","A","S","E","B","O","A","R","D"," ","=","=","=">>, <<"=","=","="," ","P","R","O","C","E","S","S","O","R"," ","=","=","=">>,
     <<"=","=","="," ","C","H","A","S","S","I","S"," ","=","=","=">>, <<"=","=","="," ","D","I","S","K","S"," ","=","=","=">>, <<"=","=","="," ","N","E","T","W","O","R","K"," ","=","=","=">>, <<"=","=","="," ","M","O","N","I","T","O","R","S"," ","=","=","=">>,
     <<"=","=","="," ","G","P","U"," ","=","=","=">>, <<"=","=","="," ","B","O","G","U","S"," ","=","=","=">>}

\* the key-value lines export_serials writes, one per key
KeyLinePool ==
    {<<"S","e","r","i","a","l"," ","N","u","m","b","e","r",":"," ","S","1">>, <<"U","U","I","D",":"," ","U","1">>, <<"S","K","U",":"," ","K","1">>, <<"A","s","s","e","t"," ","T","a","g",":"," ","T","1">>,
     <<"P","a","r","t"," ","N","u","m","b","e","r",":"," ","P","1">>, <<"D","i","s","k"," ","1",":"," ","S","a","m","s","u","n","g">>, <<" "," ","S","e","r","i","a","l"," ","(","S","t","o","r","a","g","e"," ","Q","u","e","r","y",")",":"," ","D","1">>,
     <<" "," ","W","W","N",":"," ","W","1">>, <<"E","t","h","e","r","n","e","t",":"," ","A","A",":","B","B">>, <<" "," ","I","D"," ","S","e","r","i","a","l",":"," ","7","7">>, <<" "," ","G","U","I","D",":"," ","{","4","d","3","6","}">>,
     <<" "," ","P","C","I"," ","D","e","v","i","c","e",":"," ","V","E","N","_","1","0","D","E">>}

\* a header and at most MaxKeyLines of the lines
DispatchInputs ==
    {h \o <<"\n">> \o Concat([i \in 1..Len(ls) |-> ls[i] \o <<"\n">>]) :
        h \in SectionHeaders,
        ls \in UNION {[1..n -> KeyLinePool] : n \in 0..MaxKeyLines}}

\* lines that record, or do not record, the same key
RepeatLinePool == {<<"S","e","r","i","a","l"," ","N","u","m","b","e","r",":"," ","A","1">>, <<"S","e","r","i","a","l"," ","N","u","m","b","e","r",":"," ","B","2">>, <<"S","e","r","i","a","l"," ","N","u","m","b","e","r",":"," ","N","/","A">>}

RepeatBlocks ==
    {h \o <<"\n">> \o Concat([i \in 1..Len(ls) |-> ls[i] \o <<"\n">>]) :
        h \in {<<"=","=","="," ","S","Y","S","T","E","M"," ","=","=","=">>, <<"=","=","="," ","D","I","S","K","S"," ","=","=","=">>},
        ls \in UNION {[1..n -> RepeatLinePool] : n \in 0..MaxKeyLines}}

\* two sections, the same one twice or two different ones
RepeatInputs == {a \o b : a \in RepeatBlocks, b \in RepeatBlocks}

InitSections ==
    /\ pc = "exported"
    /\ file \in {Some(content) : content \in DispatchInputs \cup RepeatInputs}
    /\ previous_serials = None
    /\ IdleLock
    /\ raw = <<>>
    /\ snapshot = <<>>
    /\ current_tab = 0
    /\ scroll_offset = 0
    /\ status_message = None
    /\ cmp = NoCmp
    /\ terminal = TerminalOff

SpecSections == InitSections /\ [][Parse]_vars

\* the field of the baseline the export format gives a (section, key) pair
TargetField(section, key) ==
    CASE section = <<"S","Y","S","T","E","M">> /\ key = <<"S","e","r","i","a","l"," ","N","u","m","b","e","r">> -> "system_serial"
      [] section = <<"S","Y","S","T","E","M">> /\ key = <<"U","U","I","D">> -> "system_uuid"
      [] section = <<"S","Y","S","T","E","M">> /\ key = <<"S","K","U">> -> "system_sku"
      [] section = <<"B","A","S","E","B","O","A","R","D">> /\ key = <<"S","e","r","i","a","l"," ","N","u","m","b","e","r">> -> "baseboard_serial"
      [] section = <<"P","R","O","C","E","S","S","O","R">> /\ key = <<"S","e","r","i","a","l"," ","N","u","m","b","e","r">> -> "processor_serial"
      [] section = <<"C","H","A","S","S","I","S">> /\ key = <<"S","e","r","i","a","l"," ","N","u","m","b","e","r">> -> "chassis_serial"
      [] section = <<"D","I","S","K","S">> /\ Contains(key, <<"S","e","r","i","a","l">>) -> "disk_serials"
      [] section = <<"N","E","T","W","O","R","K">> -> "network_macs"
      [] section = <<"M","O","N","I","T","O","R","S">> /\ key = <<"S","e","r","i","a","l"," ","N","u","m","b","e","r">> -> "monitor_serials"
      [] section = <<"G","P","U">> /\ Contains(key, <<"G","U","I","D">>) -> "gpu_guids"
      [] OTHER -> "none"

\* line k is a key-value line with a value that is recorded
HasRecordableValue(k) ==
    /\ ~IsHeaderLine(FileLine(k))
    /\ SplitOnce(FileLine(k), ":").some
    /\ LineValue(FileLine(k)) \notin {<<>>, <<"N","/","A">>}

\* the pairs of a line and the field it records into
RecordingTargets ==
    {<<k, TargetField(SectionBefore(k), LineKey(FileLine(k)))>> :
        k \in {j \in 1..FileLineCount : HasRecordableValue(j)}}

\* C23: a scalar of the baseline is the value of the last line that records
\* it, in one section or across repeated sections, and is absent when no
\* line records it; a list holds the values of the lines that record into
\* it, one element per line, in file order, duplicates kept.
C23_LastWriteWinsListsAccumulate ==
    pc = "parsed" =>
        LET b == Unwrap(previous_serials)
            n == FileLineCount
            targets == RecordingTargets
            RecordingLines(f) ==
                LET Records(k) == <<k, f>> \in targets
                IN SelectSeq([k \in 1..n |-> k], Records)
        IN /\ \A f \in ScalarFieldNames :
                 LET rec == RecordingLines(f)
                 IN b[f] = IF rec = <<>> THEN None
                           ELSE Some(LineValue(FileLine(rec[Len(rec)])))
           /\ \A f \in ListFieldNames :
                 LET rec == RecordingLines(f)
                 IN b[f] = [i \in 1..Len(rec) |-> LineValue(FileLine(rec[i]))]

C23_Witness ==
    /\ pc = "parsed"
    /\ Lines(Unwrap(file)) =
          <<<<"=","=","="," ","S","Y","S","T","E","M"," ","=","=","=">>, <<"S","e","r","i","a","l"," ","N","u","m","b","e","r",":"," ","A","1">>, <<"=","=","="," ","S","Y","S","T","E","M"," ","=","=","=">>,
            <<"S","e","r","i","a","l"," ","N","u","m","b","e","r",":"," ","B","2">>, <<"S","e","r","i","a","l"," ","N","u","m","b","e","r",":"," ","N","/","A">>>>
    /\ Unwrap(previous_serials).system_serial = Some(<<"B","2">>)

\* the fields of the baseline other than f
OtherFields(f) == (ScalarFieldNames \cup ListFieldNames) \ {f}

\* C24: for a line with a recorded value, DISKS appends to disk_serials
\* exactly when the key contains "Serial", NETWORK appends to network_macs
\* whatever the key, MONITORS appends to monitor_serials only for the key
\* "Serial Number", GPU appends to gpu_guids exactly when the key contains
\* "GUID", and BASEBOARD, PROCESSOR and CHASSIS record only the key "Serial
\* Number"; the chassis SKU never becomes system_sku.
C24_DispatchPerSection ==
    pc = "parsed" =>
        \A k \in 1..FileLineCount :
            HasRecordableValue(k) =>
                LET before == ParseStateAfter(k - 1).serials
                    after == ParseStateAfter(k).serials
                    section == SectionBefore(k)
                    key == LineKey(FileLine(k))
                    value == LineValue(FileLine(k))
                    Appends(f) ==
                        /\ after[f] = Append(before[f], value)
                        /\ \A g \in OtherFields(f) : after[g] = before[g]
                    Sets(f) ==
                        /\ after[f] = Some(value)
                        /\ \A g \in OtherFields(f) : after[g] = before[g]
                IN /\ section = <<"D","I","S","K","S">> =>
                        IF Contains(key, <<"S","e","r","i","a","l">>) THEN Appends("disk_serials")
                        ELSE after = before
                   /\ section = <<"N","E","T","W","O","R","K">> => Appends("network_macs")
                   /\ section = <<"M","O","N","I","T","O","R","S">> =>
                        IF key = <<"S","e","r","i","a","l"," ","N","u","m","b","e","r">> THEN Appends("monitor_serials")
                        ELSE after = before
                   /\ section = <<"G","P","U">> =>
                        IF Contains(key, <<"G","U","I","D">>) THEN Appends("gpu_guids")
                        ELSE after = before
                   /\ section = <<"B","A","S","E","B","O","A","R","D">> =>
                        IF key = <<"S","e","r","i","a","l"," ","N","u","m","b","e","r">> THEN Sets("baseboard_serial")
                        ELSE after = before
                   /\ section = <<"P","R","O","C","E","S","S","O","R">> =>
                        IF key = <<"S","e","r","i","a","l"," ","N","u","m","b","e","r">> THEN Sets("processor_serial")
                        ELSE after = before
                   /\ section = <<"C","H","A","S","S","I","S">> =>
                        IF key = <<"S","e","r","i","a","l"," ","N","u","m","b","e","r">> THEN Sets("chassis_serial")
                        ELSE after = before /\ ~after.system_sku.some

C24_Witness ==
    /\ pc = "parsed"
    /\ Lines(Unwrap(file)) =
          <<<<"=","=","="," ","M","O","N","I","T","O","R","S"," ","=","=","=">>, <<" "," ","I","D"," ","S","e","r","i","a","l",":"," ","7","7">>, <<"S","e","r","i","a","l"," ","N","u","m","b","e","r",":"," ","S","1">>>>
    /\ Unwrap(previous_serials) =
          [DefaultPreviousSerials EXCEPT !.monitor_serials = <<<<"S","1">>>>]

-----------------------------------------------------------------------------
(* The lists of a snapshot against the baseline of its own export *)

\* the (category, value) pairs the lists of the live snapshot give to
\* compare_list
LiveListValues ==
    {<<<<"d","i","s","k">>, d.storage_query>> : d \in Range(snapshot.disk_info)}
    \cup {<<<<"n","e","t","w","o","r","k">>, n.mac_address>> : n \in Range(snapshot.network_info)}
    \cup {<<<<"m","o","n","i","t","o","r">>, m.serial_number>> : m \in Range(snapshot.monitor_info)}
    \cup {<<<<"g","p","u">>, g.guid>> : g \in Range(snapshot.gpu_info)}

\* C25: against the baseline parsed from the export of the same snapshot,
\* compare_list gives Unchanged for every disk storage-query serial,
\* interface MAC, monitor serial and GPU GUID that is not "N/A", whatever
\* the number of entries and their names; never Changed.
C25_ListsUnchangedAfterExport ==
    pc = "parsed" =>
        \A cv \in LiveListValues :
            LET r == compare_list(Unwrap(previous_serials), cv[1], cv[2])
            IN /\ r.status # "Changed"
               /\ cv[2] \notin {<<>>, Sentinel} => r.status = "Unchanged"

\* C25, the case that fails: the interface is named "vEthernet: WSL", the
\* baseline holds what follows the first colon of its line, and the MAC of
\* the live snapshot compares as Changed
C25_Witness ==
    /\ pc = "parsed"
    /\ raw = ListInventoryC
    /\ Unwrap(previous_serials).network_macs = <<<<"W","S","L",":"," ","0","0",":","1","5",":","5","D",":","0","0",":","1","1",":","2","2">>>>
    /\ compare_list(Unwrap(previous_serials), <<"n","e","t","w","o","r","k">>, <<"0","0",":","1","5",":","5","D",":","0","0",":","1","1",":","2","2">>)
          = Changed(<<"(","d","i","f","f","e","r","e","n","t"," ","f","r","o","m"," ","p","r","e","v","i","o","u","s",")">>)

-----------------------------------------------------------------------------
(* Vendor detection *)

\* the vendor of the first pattern of the list, in the order of the list,
\* that the lowercased manufacturer contains
ExpectedVendor(lower) ==
    IF Contains(lower, <<"d","e","l","l">>) THEN <<"D","e","l","l">>
    ELSE IF Contains(lower, <<"h","p">>) THEN <<"H","P">>
    ELSE IF Contains(lower, <<"h","e","w","l","e","t","t">>) THEN <<"H","P">>
    ELSE IF Contains(lower, <<"l","e","n","o","v","o">>) THEN <<"L","e","n","o","v","o">>
    ELSE IF Contains(lower, <<"a","s","u","s">>) THEN <<"A","S","U","S">>
    ELSE IF Contains(lower, <<"a","c","e","r">>) THEN <<"A","c","e","r">>
    ELSE IF Contains(lower, <<"m","s","i">>) THEN <<"M","S","I">>
    ELSE IF Contains(lower, <<"g","i","g","a","b","y","t","e">>) THEN <<"G","i","g","a","b","y","t","e">>
    ELSE IF Contains(lower, <<"a","s","r","o","c","k">>) THEN <<"A","S","R","o","c","k">>
    ELSE <<"U","n","k","n","o","w","n">>

OemReasons ==
    {i \in DOMAIN locked_info.lock_reasons :
        Contains(locked_info.lock_reasons[i], <<"O","E","M"," ","s","y","s","t","e","m"," ","d","e","t","e","c","t","e","d">>)}

\* C26: oem_vendor is the vendor of the first matching pattern, "Unknown"
\* without a match; is_oem_system is true exactly when that vendor is Dell,
\* HP or Lenovo, and exactly then lock_reasons holds one OEM reason, that of
\* the vendor; for ASUS, Acer, MSI, Gigabyte and ASRock oem_vendor is set,
\* is_oem_system is false and there is no OEM reason.
C26_FirstVendorMatch ==
    Detected =>
        LET vendor == IF RegPresent(registry.SystemManufacturer)
                      THEN ExpectedVendor(ToLowercase(registry.SystemManufacturer.v))
                      ELSE <<"U","n","k","n","o","w","n">>
        IN /\ locked_info.oem_vendor = vendor
           /\ locked_info.is_oem_system <=> vendor \in {<<"D","e","l","l">>, <<"H","P">>, <<"L","e","n","o","v","o">>}
           /\ locked_info.is_oem_system =>
                 /\ OemReasons = {1}
                 /\ locked_info.lock_reasons[1]
                       = vendor \o <<" ","O","E","M"," ","s","y","s","t","e","m"," ","d","e","t","e","c","t","e","d"," ","-"," ","B","I","O","S"," ","t","y","p","i","c","a","l","l","y"," ","l","o","c","k","e","d">>
           /\ ~locked_info.is_oem_system => OemReasons = {}
           /\ vendor \in {<<"A","S","U","S">>, <<"A","c","e","r">>, <<"M","S","I">>, <<"G","i","g","a","b","y","t","e">>, <<"A","S","R","o","c","k">>} =>
                 /\ locked_info.oem_vendor # <<"U","n","k","n","o","w","n">>
                 /\ ~locked_info.is_oem_system
                 /\ locked_info.overall_locked
                       = (locked_info.secure_boot_enforced
                             \/ locked_info.bios_write_protected)

C26_Witness ==
    /\ Detected
    /\ RegPresent(registry.SystemManufacturer)
    /\ registry.SystemManufacturer.v = <<"M","S","I"," ","b","y"," ","h","p">>
    /\ locked_info.oem_vendor = <<"H","P">>
    /\ locked_info.is_oem_system
    /\ OemReasons = {1}

-----------------------------------------------------------------------------
(* The comparator on a baseline that parse has returned *)

\* current values: empty, the sentinel, values the files hold, one they do
\* not, one with a blank at its end
ParsedCurrents == {<<>>, <<"N","/","A">>, <<"A","1">>, <<"B","2">>, <<"Z","Z","9">>, <<"A","1"," ">>}

CompareCategories == ScalarKeys \cup ListKeys \cup {<<"b","i","o","s","_","s","e","r","i","a","l">>, <<>>}

InitBaseline ==
    /\ pc = "exported"
    /\ file \in {Some(content) : content \in RepeatBlocks}
    /\ previous_serials = None
    /\ IdleLock
    /\ raw = <<>>
    /\ snapshot = <<>>
    /\ current_tab = 0
    /\ scroll_offset = 0
    /\ status_message = None
    /\ cmp = NoCmp
    /\ terminal = TerminalOff

\* one call of compare or compare_list on the baseline parse has returned
CompareParsed(category, current) ==
    /\ pc = "parsed"
    /\ \E r \in {compare(Unwrap(previous_serials), category, current)} :
          cmp' = [op |-> "compare", category |-> category, current |-> current,
                  status |-> r.status, old |-> r.old]
    /\ pc' = "compared"
    /\ UNCHANGED compareVars

CompareListParsed(category, current) ==
    /\ pc = "parsed"
    /\ \E r \in {compare_list(Unwrap(previous_serials), category, current)} :
          cmp' = [op |-> "compare_list", category |-> category,
                  current |-> current, status |-> r.status, old |-> r.old]
    /\ pc' = "compared"
    /\ UNCHANGED compareVars

NextBaseline ==
    \/ Parse
    \/ \E category \in CompareCategories, current \in ParsedCurrents :
          CompareParsed(category, current)
    \/ \E category \in CompareCategories, current \in ParsedCurrents :
          CompareListParsed(category, current)

SpecBaseline == InitBaseline /\ [][NextBaseline]_vars

\* C27: on a baseline parse has returned, compare answers Changed{old} only
\* for one of the six scalar categories whose baseline value is present, old
\* being that value, not empty, not "N/A" and not the current value; for a
\* category it does not know compare answers New, and so does compare_list.
C27_ChangedOnlyOnKnownValue ==
    pc = "compared" =>
        /\ (cmp.op = "compare" /\ cmp.status = "Changed") =>
              /\ cmp.category \in ScalarKeys
              /\ BaselineScalarOf(cmp.category) = Some(cmp.old)
              /\ cmp.old \notin {<<>>, <<"N","/","A">>}
              /\ cmp.old # cmp.current
        /\ (cmp.op = "compare" /\ cmp.category \notin ScalarKeys) =>
              <<cmp.status, cmp.old>> = <<"New", <<>>>>
        /\ (cmp.op = "compare_list" /\ cmp.category \notin ListKeys) =>
              <<cmp.status, cmp.old>> = <<"New", <<>>>>

C27_Witness ==
    /\ pc = "compared"
    /\ cmp.op = "compare"
    /\ cmp.category = <<"s","y","s","t","e","m","_","s","e","r","i","a","l">>
    /\ cmp.current = <<"A","1"," ">>
    /\ Lines(Unwrap(file)) = <<<<"=","=","="," ","S","Y","S","T","E","M"," ","=","=","=">>, <<"S","e","r","i","a","l"," ","N","u","m","b","e","r",":"," ","B","2">>, <<"S","e","r","i","a","l"," ","N","u","m","b","e","r",":"," ","A","1">>>>
    /\ cmp.status = "Changed"
    /\ cmp.old = <<"A","1">>

-----------------------------------------------------------------------------
(* The tab index *)

\* C28: current_tab is always an index of Tab::all(); next_tab moves from
\* the last tab to the first and otherwise one tab on, previous_tab moves
\* from the first tab to the last and otherwise one tab back, previous_tab
\* undoes next_tab, and both set scroll_offset to 0.
C28_TabIndexInRange ==
    /\ [](current_tab \in 0..(TabCount - 1))
    /\ [][NextTab =>
            /\ current_tab' = IF current_tab = TabCount - 1 THEN 0
                              ELSE current_tab + 1
            /\ (IF current_tab' = 0 THEN TabCount - 1 ELSE current_tab' - 1)
                  = current_tab
            /\ scroll_offset' = 0]_vars
    /\ [][PreviousTab =>
            /\ current_tab' = IF current_tab = 0 THEN TabCount - 1
                              ELSE current_tab - 1
            /\ (current_tab' + 1) % TabCount = current_tab
            /\ scroll_offset' = 0]_vars

C28_Witness ==
    /\ pc = "running"
    /\ current_tab = TabCount - 1
    /\ scroll_offset = 0
    /\ status_message = ExportedStatus

-----------------------------------------------------------------------------
(* The scroll offset near the two ends of the u16 range *)

\* a session that has scrolled to the start or near the end of the range
InitScroll ==
    /\ pc = "running"
    /\ \/ platform = "windows" /\ raw \in SessionInventories
       \/ platform = "other" /\ raw = EmptyInventory
    /\ snapshot = collect(platform, raw)
    /\ file = None
    /\ previous_serials = reload_previous_serials(file)
    /\ current_tab = 0
    /\ scroll_offset \in {0, U16Max - MaxScroll}
    /\ status_message = None
    /\ registry = NoRegistry
    /\ locked_info = detect(platform, registry)
    /\ spoofing_advice = generate_spoofing_advice(locked_info)
    /\ cmp = NoCmp
    /\ terminal = TerminalOn

NextScroll == NextTab \/ PreviousTab \/ ScrollUp \/ ScrollDown

SpecScroll == InitScroll /\ [][NextScroll]_vars

\* C30: scroll_offset stays in 0..65535 and no scroll key aborts the
\* session: the session is running in every state the scroll keys and the
\* tab keys lead to.
C30_ScrollNeverAborts ==
    /\ scroll_offset \in 0..U16Max
    /\ pc = "running"

\* C30, the case that fails: scroll_down at 65535 in a build with overflow
\* checks
C30_Witness ==
    /\ pc = "panicked"
    /\ scroll_offset = U16Max

-----------------------------------------------------------------------------
(* main: the terminal is set up, run_app runs, the terminal is restored *)

InitMain ==
    /\ pc = "main"
    /\ \/ platform = "windows" /\ raw = BaseInventory
       \/ platform = "other" /\ raw = EmptyInventory
    /\ snapshot = <<>>
    /\ file \in EarlierFiles
    /\ previous_serials = None
    /\ current_tab = 0
    /\ scroll_offset = 0
    /\ status_message = None
    /\ registry = NoRegistry
    /\ locked_info = DefaultLockedInfo
    /\ spoofing_advice = <<>>
    /\ cmp = NoCmp
    /\ terminal = TerminalOff

mainVars == <<lockVars, appVars, cmp>>

\* enable_raw_mode()?
EnableRawMode(ok) ==
    /\ pc = "main"
    /\ IF ok
       THEN /\ terminal' = [terminal EXCEPT !.raw_mode = TRUE]
            /\ pc' = "enter_screen"
       ELSE /\ terminal' = terminal
            /\ pc' = "returned"
    /\ UNCHANGED mainVars

\* execute!(stdout, EnterAlternateScreen, EnableMouseCapture)?: when it
\* fails the screen has been entered or not
EnterAlternateScreen(ok, entered) ==
    /\ pc = "enter_screen"
    /\ IF ok
       THEN /\ entered
            /\ terminal' = [terminal EXCEPT !.alternate_screen = TRUE]
            /\ pc' = "new_terminal"
       ELSE /\ terminal' = [terminal EXCEPT !.alternate_screen = entered]
            /\ pc' = "returned"
    /\ UNCHANGED mainVars

\* Terminal::new(backend)?
NewTerminal(ok) ==
    /\ pc = "new_terminal"
    /\ pc' = IF ok THEN "app_new" ELSE "returned"
    /\ UNCHANGED <<terminal, mainVars>>

\* let mut app = App::new(); run_app is entered
AppNew ==
    /\ pc = "app_new"
    /\ snapshot' = collect(platform, raw)
    /\ previous_serials' = reload_previous_serials(file)
    /\ locked_info' = detect(platform, registry)
    /\ spoofing_advice' = generate_spoofing_advice(locked_info')
    /\ pc' = "running"
    /\ UNCHANGED <<terminal, platform, registry, raw, file, current_tab,
                   scroll_offset, status_message, cmp>>

\* terminal.draw(..)? or event::read()? returns Err: run_app returns it
RunAppFails ==
    /\ pc = "running"
    /\ pc' = "failed"
    /\ UNCHANGED <<terminal, mainVars>>

\* disable_raw_mode()?, whatever run_app has returned
DisableRawMode(ok) ==
    /\ pc \in {"quit", "failed"}
    /\ IF ok
       THEN /\ terminal' = [terminal EXCEPT !.raw_mode = FALSE]
            /\ pc' = "leave_screen"
       ELSE /\ terminal' = terminal
            /\ pc' = "returned"
    /\ UNCHANGED mainVars

\* execute!(terminal.backend_mut(), LeaveAlternateScreen, DisableMouseCapture)?:
\* when it fails the screen has been left or not
LeaveAlternateScreen(ok, left) ==
    /\ pc = "leave_screen"
    /\ IF ok
       THEN /\ left
            /\ terminal' = [terminal EXCEPT !.alternate_screen = FALSE]
            /\ pc' = "show_cursor"
       ELSE /\ terminal' = [terminal EXCEPT !.alternate_screen = ~left]
            /\ pc' = "returned"
    /\ UNCHANGED mainVars

\* terminal.show_cursor()?, then the error of run_app is printed and main
\* returns Ok(())
ShowCursor(ok) ==
    /\ pc = "show_cursor"
    /\ ok \in BOOLEAN
    /\ pc' = "returned"
    /\ UNCHANGED <<terminal, mainVars>>

NextMain ==
    \/ \E ok \in BOOLEAN : EnableRawMode(ok)
    \/ \E ok \in BOOLEAN, entered \in BOOLEAN : EnterAlternateScreen(ok, entered)
    \/ \E ok \in BOOLEAN : NewTerminal(ok)
    \/ AppNew
    \/ Next
    \/ RunAppFails
    \/ \E ok \in BOOLEAN : DisableRawMode(ok)
    \/ \E ok \in BOOLEAN, left \in BOOLEAN : LeaveAlternateScreen(ok, left)
    \/ \E ok \in BOOLEAN : ShowCursor(ok)

SpecMain == InitMain /\ [][NextMain]_vars

\* C29: when main has returned, raw mode is off and the alternate screen
\* has been left, on every path: quit, an error of run_app, a failure of a
\* set-up or restore step.
C29_TerminalRestoredOnReturn ==
    pc = "returned" => (~terminal.raw_mode /\ ~terminal.alternate_screen)

\* C29, the case that fails: Terminal::new fails after raw mode was enabled
\* and the alternate screen entered, no App was made, and main has returned
C29_Witness ==
    /\ pc = "returned"
    /\ snapshot = <<>>
    /\ terminal.raw_mode
    /\ terminal.alternate_screen
====
